---- MODULE Spec2Model ----
(***************************************************************************)
(* Verification model of the transit back end:                             *)
(*   - the realistic stop-times synthesiser                                *)
(*     (services/realistic_stop_times_service.py),                         *)
(*   - the arrival observer (services/arrival_logger.py),                  *)
(*   - the RAPTOR engine and the query orchestrator                        *)
(*     (services/raptor_service.py, services/navigation_service.py),       *)
(*   - the timetable loaded at boot (services/timetables.py).              *)
(* Each component has its own specification over the shared variable list; *)
(* the variables of the other components stay at their initial value.      *)
(***************************************************************************)
EXTENDS Integers, Sequences, FiniteSets, TLC

VARIABLES
    \* ---- synthesiser ----
    static_stop_times,   \* rows of gtfs_static/stop_times.txt
    delay_stats,         \* self.delay_stats: <<trip_id, stop_id>> -> samples
    stop_times_data,     \* self.stop_times_data (rows, updated in place)
    trips_dict,          \* trip_id -> indices into stop_times_data, sorted
    trips_todo,          \* trips still to process, in dict insertion order
    realistic_out,       \* rows written to realistic_stop_times.txt
    synth_pc,            \* position in calculate_realistic_stop_times
    \* ---- arrival observer ----
    clock,               \* wall clock, in tenths of a second
    advances,            \* number of times the clock has advanced
    vehicle_arrivals,    \* self.vehicle_arrivals: trip_id -> set of stop_ids
    vehicle_latest_arrival, \* self.vehicle_latest_arrival: trip_id -> entry
    arrival_log,         \* rows appended to arrival_log.csv
    poll_pc,             \* position of poll_vehicles in its loop body
    wake_at,             \* end of the current asyncio.sleep(POLL_INTERVAL)
    tick_now,            \* `now` of the running tick (line 242)
    tick_trips,          \* known trips of the running tick's feed
    work,                \* (vehicle, stop) pairs the tick has still to visit
    cur_pair,            \* pair between its dedup check and its recording
    reader_ret,          \* last get_latest_arrival call: argument and result
    \* ---- RAPTOR engine and orchestrator ----
    query,               \* timetable in force, routes table, origin, destination, departure
    tau,                 \* tau[stop][k + 1]: label of round k
    parent,              \* parent[stop][k + 1]: record that produced the label
    round,               \* k of the main loop
    updated_left,        \* stops_updated_by_transit still to visit in the transfer phase
    candidates,          \* candidate_routes still to reconstruct (sorted)
    temp_results,        \* temp_results
    routes,              \* the list run returns
    response,            \* routes of the response navigate builds
    raptor_pc,           \* position in run / navigate
    \* ---- delay statistics of one (trip, stop) pair ----
    sample_group,        \* raw_delays[key]: the samples the arrival log holds
    stats_once,          \* delay_stats after _parse_arrival_log
    stats_twice,         \* delay_stats after parsing the surviving samples again
    rep_delay,           \* _calculate_average_delay(trip, stop)
    noon_adjusted,       \* realistic time of a nominal 12:00:00
    delay_pc,            \* position in the computation
    \* ---- timetable loaded at boot ----
    stop_times_table,    \* rows of the stop_times table (scheduled)
    realistic_table,     \* rows of the realistic_stop_times table
    calendar_dates,      \* rows of the calendar_dates table
    boot_now,            \* datetime.now() of _load_stop_times: <<hour, minute>>
    stop_times_by_trip,  \* self.stop_times_by_trip
    boot_pc,             \* position in Timetables.load
    \* ---- delay of one recorded arrival ----
    parse_args,          \* time_str, now and the service-day test of _parse_gtfs_time
    scheduled_dt,        \* scheduled_dt (line 289): <<>> for None, <<instant>> otherwise
    delay_sec,           \* delay_sec (lines 291-293): <<>> for None, <<seconds>> otherwise
    parse_pc             \* position in the computation

synth_vars == <<static_stop_times, delay_stats, stop_times_data, trips_dict,
                trips_todo, realistic_out, synth_pc>>

obs_vars == <<clock, advances, vehicle_arrivals, vehicle_latest_arrival,
              arrival_log, poll_pc, wake_at, tick_now, tick_trips, work, cur_pair,
              reader_ret>>

raptor_vars == <<query, tau, parent, round, updated_left, candidates,
                 temp_results, routes, response, raptor_pc>>

delay_vars == <<sample_group, stats_once, stats_twice, rep_delay, noon_adjusted, delay_pc>>

boot_vars == <<stop_times_table, realistic_table, calendar_dates, boot_now,
               stop_times_by_trip, boot_pc>>

parse_vars == <<parse_args, scheduled_dt, delay_sec, parse_pc>>

vars == <<synth_vars, obs_vars, raptor_vars, delay_vars, boot_vars, parse_vars>>

\* What the steps of one component leave alone.
not_synth_vars == <<obs_vars, raptor_vars, delay_vars, boot_vars, parse_vars>>
not_obs_vars == <<synth_vars, raptor_vars, delay_vars, boot_vars, parse_vars>>
not_raptor_vars == <<synth_vars, obs_vars, delay_vars, boot_vars, parse_vars>>
not_delay_vars == <<synth_vars, obs_vars, raptor_vars, boot_vars, parse_vars>>
not_boot_vars == <<synth_vars, obs_vars, raptor_vars, delay_vars, parse_vars>>
not_parse_vars == <<synth_vars, obs_vars, raptor_vars, delay_vars, boot_vars>>

(***************************************************************************)
(* Generic helpers                                                         *)
(***************************************************************************)
Range(s) == {s[i] : i \in 1..Len(s)}

RECURSIVE SumSeq(_)
SumSeq(s) == IF s = <<>> THEN 0 ELSE Head(s) + SumSeq(Tail(s))

\* Variant that rounds the half down.
FloorHalf(x) == x \div 2

\* Python's int(x / 2) for an integer x: truncation toward zero.
TruncHalf(x) == IF x >= 0 THEN x \div 2 ELSE -((-x) \div 2)

\* sorted(xs) for a sequence of integers (insertion sort, stable).
RECURSIVE InsertSorted(_, _)
InsertSorted(x, s) ==
    IF s = <<>> THEN <<x>>
    ELSE IF x < Head(s) THEN <<x>> \o s
    ELSE <<Head(s)>> \o InsertSorted(x, Tail(s))

RECURSIVE SortedInts(_)
SortedInts(s) ==
    IF s = <<>> THEN <<>>
    ELSE InsertSorted(s[Len(s)], SortedInts(SubSeq(s, 1, Len(s) - 1)))

(***************************************************************************)
(* Synthesiser: realistic_stop_times_service.py                            *)
(*                                                                         *)
(* A GTFS time string "HH:MM:SS" is the triple <<HH, MM, SS>> of its       *)
(* fields; the empty string is <<>>.                                       *)
(***************************************************************************)
MaxRows == 3

EmptyStr == <<>>

\* prev_time_seconds = None
NoneTime == -1

\* int(parts[0]) * 3600 + int(parts[1]) * 60 + int(parts[2])
ParseTime(t) == t[1] * 3600 + t[2] * 60 + t[3]

\* f"{adj_hours:02d}:{adj_minutes:02d}:{adj_secs:02d}"
FormatTime(x) == <<x \div 3600, (x % 3600) \div 60, x % 60>>

\* statistics.median(delays), then int(): middle sample, or the mean of the
\* two middle samples truncated toward zero.
Median(delays) ==
    LET s == SortedInts(delays)
        n == Len(s)
    IN  IF n % 2 = 1 THEN s[(n + 1) \div 2]
        ELSE TruncHalf(s[n \div 2] + s[n \div 2 + 1])

\* _calculate_average_delay(trip_id, stop_id), reading delay table ds
CalculateAverageDelay(ds, trip_id, stop_id) ==
    LET key == <<trip_id, stop_id>>
    IN  IF key \notin DOMAIN ds \/ ds[key] = <<>> THEN 0
        ELSE Median(ds[key])

\* Variant without the clamp of a negative result to 0.
AdjustGtfsTimeUnclamped(time_str, delay_seconds) ==
    IF time_str = EmptyStr THEN time_str
    ELSE FormatTime(ParseTime(time_str) + delay_seconds)

\* _adjust_gtfs_time(time_str, delay_seconds)
AdjustGtfsTime(time_str, delay_seconds) ==
    IF time_str = EmptyStr THEN time_str
    ELSE LET total_seconds == ParseTime(time_str)
             adjusted == total_seconds + delay_seconds
             clamped == IF adjusted < 0 THEN 0 ELSE adjusted
         IN  FormatTime(clamped)

\* The (trip, stop-sequence) keys of a table, in row order.
RowKeys(rows) == [i \in 1..Len(rows) |-> <<rows[i].trip_id, rows[i].stop_sequence>>]

\* trips_dict[trip_id].sort(key=int(stop_sequence)) on row indices (stable).
RECURSIVE InsertBySeq(_, _, _)
InsertBySeq(data, i, s) ==
    IF s = <<>> THEN <<i>>
    ELSE IF data[i].stop_sequence < data[Head(s)].stop_sequence THEN <<i>> \o s
    ELSE <<Head(s)>> \o InsertBySeq(data, i, Tail(s))

RECURSIVE SortBySeq(_, _)
SortBySeq(data, idxs) ==
    IF idxs = <<>> THEN <<>>
    ELSE InsertBySeq(data, idxs[Len(idxs)],
                     SortBySeq(data, SubSeq(idxs, 1, Len(idxs) - 1)))

\* Indices of the rows of one trip, in file order.
RowsOfTrip(data, trip_id) ==
    SelectSeq([i \in 1..Len(data) |-> i], LAMBDA i : data[i].trip_id = trip_id)

\* Keys of trips_dict in insertion order: trips by first appearance, the
\* empty trip_id left out (if trip_id: ...).
RECURSIVE TripOrder(_, _)
TripOrder(data, i) ==
    IF i > Len(data) THEN <<>>
    ELSE LET t == data[i].trip_id
             seen == {data[j].trip_id : j \in 1..(i - 1)}
         IN  IF t /= "" /\ t \notin seen
             THEN <<t>> \o TripOrder(data, i + 1)
             ELSE TripOrder(data, i + 1)

\* Grouping and per-trip sort (lines 269-278).
GroupTrips(data) ==
    [t \in Range(TripOrder(data, 1)) |-> SortBySeq(data, RowsOfTrip(data, t))]

\* Variant of the test of line 309 with < in place of <=.
NeedsEnforceStrictLess(prev, cur) == prev /= NoneTime /\ cur < prev

\* The monotonic-progression test of line 309.
NeedsEnforce(prev, cur) == prev /= NoneTime /\ cur <= prev

\* One iteration of the inner loop (lines 287-323) on row index i.
\* Returns the updated table and prev_time_seconds.
ProcessStop(data, ds, trip_id, i, prev) ==
    LET row == data[i]
        original_arrival == row.arrival_time
    IN  IF original_arrival = EmptyStr
        THEN [data |-> data, prev |-> prev]
        ELSE
          LET avg_delay == CalculateAverageDelay(ds, trip_id, row.stop_id)
              adjusted_arrival ==
                  IF avg_delay /= 0
                  THEN AdjustGtfsTime(original_arrival, avg_delay)
                  ELSE original_arrival
              current == ParseTime(adjusted_arrival)
              enforce == NeedsEnforce(prev, current)
              current2 == IF enforce THEN prev + 60 ELSE current
              final_arrival == IF enforce THEN FormatTime(current2)
                               ELSE adjusted_arrival
          IN  [data |-> [data EXCEPT ![i] =
                            [row EXCEPT !.arrival_time = final_arrival,
                                        !.departure_time = final_arrival]],
               prev |-> current2]

\* The inner loop over the sorted rows of one trip.
RECURSIVE ProcessStops(_, _, _, _, _)
ProcessStops(data, ds, trip_id, idxs, prev) ==
    IF idxs = <<>> THEN data
    ELSE LET r == ProcessStop(data, ds, trip_id, Head(idxs), prev)
         IN  ProcessStops(r.data, ds, trip_id, Tail(idxs), r.prev)

\* Variant of the writer that emits only the rows grouped into trips_dict.
WriteRowsGroupedOnly(data) == SelectSeq(data, LAMBDA r : r.trip_id /= "")

\* _write_realistic_stop_times: writer.writerows(self.stop_times_data)
WriteRows(data) == data

\* ---- inputs ----
SynthTrips == {"T1", "T2", ""}

\* (scheduled arrival_time, surviving delay samples of the row's (trip, stop))
TimeDelayChoices ==
    { <<EmptyStr, <<>>>>,
      <<<<0, 0, 0>>, <<>>>>,
      <<<<0, 0, 60>>, <<>>>>,
      <<<<0, 1, 0>>, <<120>>>>,
      <<<<0, 1, 0>>, <<-120>>>>,
      <<<<0, 2, 0>>, <<-61, -60>>>> }

StopName(i) == <<"stop", i>>

\* Scheduled dwell of the static feed: departure 30 s after arrival.
StaticDeparture(t) == IF t = EmptyStr THEN EmptyStr ELSE FormatTime(ParseTime(t) + 30)

MakeRow(n, i, desc, trip, td) ==
    [trip_id |-> trip, stop_id |-> StopName(i),
     stop_sequence |-> IF desc THEN n + 1 - i ELSE i,
     arrival_time |-> td[1], departure_time |-> StaticDeparture(td[1])]

SynthInit ==
    \E n \in 0..MaxRows :
      \E desc \in BOOLEAN :
        \E tr \in [1..n -> SynthTrips] :
          \E td \in [1..n -> TimeDelayChoices] :
            /\ static_stop_times = [i \in 1..n |-> MakeRow(n, i, desc, tr[i], td[i])]
            /\ delay_stats = [k \in {<<tr[i], StopName(i)>> : i \in 1..n}
                                |-> LET i == CHOOSE j \in 1..n : <<tr[j], StopName(j)>> = k
                                    IN td[i][2]]
            /\ stop_times_data = <<>>
            /\ trips_dict = <<>>
            /\ trips_todo = <<>>
            /\ realistic_out = <<>>
            /\ synth_pc = "start"

\* Lines 262-278: load the static rows; stop if there are none; group by trip
\* and sort each trip by stop_sequence.
SynthLoad ==
    /\ UNCHANGED not_synth_vars
    /\ synth_pc = "start"
    /\ stop_times_data' = static_stop_times
    /\ IF static_stop_times = <<>>
       THEN /\ synth_pc' = "failed"
            /\ UNCHANGED <<trips_dict, trips_todo>>
       ELSE /\ trips_dict' = GroupTrips(static_stop_times)
            /\ trips_todo' = TripOrder(static_stop_times, 1)
            /\ synth_pc' = "process"
    /\ UNCHANGED <<static_stop_times, delay_stats, realistic_out>>

\* Lines 284-323: one iteration of the outer loop (one trip).
SynthProcessTrip ==
    /\ UNCHANGED not_synth_vars
    /\ synth_pc = "process"
    /\ trips_todo /= <<>>
    /\ LET t == Head(trips_todo)
       IN  stop_times_data' =
               ProcessStops(stop_times_data, delay_stats, t, trips_dict[t], NoneTime)
    /\ trips_todo' = Tail(trips_todo)
    /\ UNCHANGED <<static_stop_times, delay_stats, trips_dict, realistic_out, synth_pc>>

\* Lines 328-335: write the table.
SynthWrite ==
    /\ UNCHANGED not_synth_vars
    /\ synth_pc = "process"
    /\ trips_todo = <<>>
    /\ realistic_out' = WriteRows(stop_times_data)
    /\ synth_pc' = "done"
    /\ UNCHANGED <<static_stop_times, delay_stats, stop_times_data, trips_dict, trips_todo>>

SynthNext ==
    \/ SynthLoad
    \/ SynthProcessTrip
    \/ SynthWrite

\* The synthesiser not running.
SynthIdle ==
    /\ static_stop_times = <<>>
    /\ delay_stats = <<>>
    /\ stop_times_data = <<>>
    /\ trips_dict = <<>>
    /\ trips_todo = <<>>
    /\ realistic_out = <<>>
    /\ synth_pc = "idle"

(***************************************************************************)
(* Delay statistics: _parse_arrival_log, _calculate_average_delay and      *)
(* _adjust_gtfs_time of realistic_stop_times_service.py on the samples of  *)
(* one (trip, stop) pair.                                                  *)
(***************************************************************************)
MaxSamples == 7

IQR_MULTIPLIER == 3

\* Delays the arrival log may hold for the pair, in seconds.
DelayValues == {-30, -1, 0, 60, 90, 120, 180, 3600}

\* The pair the samples belong to.
SampleKey == <<"T1", StopName(1)>>

\* Variant of the size test: a group of 4 is left alone too.
TooFewForIqrAtFour(n) == n <= 4

\* len(delays) < 4
TooFewForIqr(n) == n < 4

\* lower_bound <= d <= upper_bound
WithinBounds(d, lower_bound, upper_bound) == lower_bound <= d /\ d <= upper_bound

\* filtered_delays of a group of at least 4 samples (lines 116-129)
FilteredDelays(delays) ==
    LET sorted_delays == SortedInts(delays)
        q1 == sorted_delays[Len(sorted_delays) \div 4 + 1]
        q3 == sorted_delays[(3 * Len(sorted_delays)) \div 4 + 1]
        iqr == q3 - q1
        lower_bound == q1 - IQR_MULTIPLIER * iqr
        upper_bound == q3 + IQR_MULTIPLIER * iqr
    IN  SelectSeq(delays, LAMBDA d : WithinBounds(d, lower_bound, upper_bound))

\* The second pass of _parse_arrival_log for the groups of raw_delays
\* (a dict holding the key when the pair has samples): delay_stats.
ParseGroups(raw) ==
    LET kept == [k \in DOMAIN raw |->
                    IF TooFewForIqr(Len(raw[k])) THEN raw[k] ELSE FilteredDelays(raw[k])]
        stored == {k \in DOMAIN raw : TooFewForIqr(Len(raw[k])) \/ kept[k] /= <<>>}
    IN  [k \in stored |-> kept[k]]

\* raw_delays built from the log rows of the pair: no key without a row.
RawDelaysOf(samples) ==
    IF samples = <<>> THEN <<>> ELSE [k \in {SampleKey} |-> samples]

\* delay_stats[key] of a defaultdict(list) read without inserting.
GroupIn(ds) == IF SampleKey \in DOMAIN ds THEN ds[SampleKey] ELSE <<>>

\* Non-decreasing sample lists of length n over DelayValues, from lo up.
RECURSIVE Ascending(_, _)
Ascending(n, lo) ==
    IF n = 0 THEN {<<>>}
    ELSE UNION {{<<v>> \o rest : rest \in Ascending(n - 1, v)} :
                   v \in {x \in DelayValues : x >= lo}}

Reversed(s) == [i \in 1..Len(s) |-> s[Len(s) + 1 - i]]

\* The log holds up to MaxSamples rows of the pair, oldest first; delays
\* may have grown or shrunk over the days.
SampleGroups ==
    UNION {Ascending(n, -30) \cup {Reversed(g) : g \in Ascending(n, -30)} :
              n \in 0..MaxSamples}

DelayInit ==
    /\ sample_group \in SampleGroups
    /\ stats_once = <<>>
    /\ stats_twice = <<>>
    /\ rep_delay = 0
    /\ noon_adjusted = EmptyStr
    /\ delay_pc = "start"

\* No statistics being computed.
DelayIdle ==
    /\ sample_group = <<>>
    /\ stats_once = <<>>
    /\ stats_twice = <<>>
    /\ rep_delay = 0
    /\ noon_adjusted = EmptyStr
    /\ delay_pc = "idle"

\* _parse_arrival_log on the log.
ParseArrivalLog ==
    /\ UNCHANGED not_delay_vars
    /\ delay_pc = "start"
    /\ stats_once' = ParseGroups(RawDelaysOf(sample_group))
    /\ delay_pc' = "parsed"
    /\ UNCHANGED <<sample_group, stats_twice, rep_delay, noon_adjusted>>

\* _parse_arrival_log on a log that holds the surviving samples.
ParseSurvivors ==
    /\ UNCHANGED not_delay_vars
    /\ delay_pc = "parsed"
    /\ stats_twice' = ParseGroups(RawDelaysOf(GroupIn(stats_once)))
    /\ delay_pc' = "reparsed"
    /\ UNCHANGED <<sample_group, stats_once, rep_delay, noon_adjusted>>

\* Lines 295-302 for a stop of the pair scheduled at 12:00:00.
AdjustNoon ==
    /\ UNCHANGED not_delay_vars
    /\ delay_pc = "reparsed"
    /\ LET avg_delay == CalculateAverageDelay(stats_once, SampleKey[1], SampleKey[2])
       IN  /\ rep_delay' = avg_delay
           /\ noon_adjusted' = IF avg_delay /= 0
                               THEN AdjustGtfsTime(<<12, 0, 0>>, avg_delay)
                               ELSE <<12, 0, 0>>
    /\ delay_pc' = "done"
    /\ UNCHANGED <<sample_group, stats_once, stats_twice>>

DelayNext ==
    \/ ParseArrivalLog
    \/ ParseSurvivors
    \/ AdjustNoon

(***************************************************************************)
(* Arrival observer: arrival_logger.py                                     *)
(*                                                                         *)
(* Instants and ages are counted in tenths of a second, positions and      *)
(* distances in tenths of a metre along one street, so that 59.9 s and     *)
(* 29.9 m are values of the model.  A dict is a function whose DOMAIN is   *)
(* its key set.                                                            *)
(***************************************************************************)
MaxAdvances == 3

POLL_INTERVAL == 5
DISTANCE_THRESHOLD_M == 30
CACHE_TTL_SECONDS == 60

NoneVal == "None"

\* self.stops: stop_id -> position (stops.txt)
stops == [S1 |-> [name |-> "first", pos |-> 0],
          S2 |-> [name |-> "second", pos |-> 1000]]

\* self.trip_stops: trip_id -> stop_info list (stop_times.txt).  S9 is a stop
\* of the timetable that stops.txt does not hold.
trip_stops ==
    [T1 |-> << [stop_id |-> "S1", arrival_time |-> <<10, 0, 0>>, stop_sequence |-> 1],
               [stop_id |-> "S2", arrival_time |-> <<10, 5, 0>>, stop_sequence |-> 2] >>,
     T2 |-> << [stop_id |-> "S9", arrival_time |-> <<10, 0, 0>>, stop_sequence |-> 1],
               [stop_id |-> "S2", arrival_time |-> <<10, 2, 0>>, stop_sequence |-> 2] >>]

ObsTrips == DOMAIN trip_stops

\* haversine(lat, lon, stop.lat, stop.lon) for points of one street, in
\* tenths of a metre.
Distance(p, q) == IF p >= q THEN p - q ELSE q - p

\* Variant of the proximity test with > in place of >=.
TooFarInclusive(d) == d > DISTANCE_THRESHOLD_M * 10

\* distance >= DISTANCE_THRESHOLD_M (line 276)
TooFar(d) == d >= DISTANCE_THRESHOLD_M * 10

\* Variant of the expiry test with >= in place of >.
CacheExpiredAtTtl(age) == age >= CACHE_TTL_SECONDS * 10

\* age_seconds > CACHE_TTL_SECONDS (line 189), age in tenths of a second
CacheExpired(age) == age > CACHE_TTL_SECONDS * 10

\* Dict helpers.
DictDel(d, k) == [x \in (DOMAIN d) \ {k} |-> d[x]]
DictSet(d, k, v) == [x \in (DOMAIN d) \cup {k} |-> IF x = k THEN v ELSE d[x]]

\* Feeds the endpoint may answer with.  An entity is a vehicle with or
\* without a position and with or without a trip_id.
FeedChoices ==
    { <<>>,
      << [has_pos |-> TRUE, trip_id |-> "T1", pos |-> 0] >>,
      << [has_pos |-> TRUE, trip_id |-> "T1", pos |-> 299] >>,
      << [has_pos |-> TRUE, trip_id |-> "T1", pos |-> 300] >>,
      << [has_pos |-> TRUE, trip_id |-> "T1", pos |-> 1000],
         [has_pos |-> FALSE, trip_id |-> "T2", pos |-> 0],
         [has_pos |-> TRUE, trip_id |-> NoneVal, pos |-> 0],
         [has_pos |-> TRUE, trip_id |-> "TX", pos |-> 0],
         [has_pos |-> TRUE, trip_id |-> "T2", pos |-> 1001] >> }

\* Lines 250-258: the entities the tick processes.
Tracked(e) == e.has_pos /\ e.trip_id /= NoneVal /\ e.trip_id \in DOMAIN trip_stops

\* trip_ids_in_feed after the loop over the entities (line 261).
TripIdsInFeed(feed) == {feed[i].trip_id : i \in {j \in 1..Len(feed) : Tracked(feed[j])}}

\* The (vehicle, stop_info) pairs in the order the nested loops visit them.
RECURSIVE PairsOfEntity(_, _)
PairsOfEntity(e, infos) ==
    IF infos = <<>> THEN <<>>
    ELSE << [trip_id |-> e.trip_id, pos |-> e.pos, stop_id |-> Head(infos).stop_id,
             stop_sequence |-> Head(infos).stop_sequence] >>
         \o PairsOfEntity(e, Tail(infos))

RECURSIVE BuildWork(_)
BuildWork(feed) ==
    IF feed = <<>> THEN <<>>
    ELSE (IF Tracked(Head(feed))
          THEN PairsOfEntity(Head(feed), trip_stops[Head(feed).trip_id])
          ELSE <<>>) \o BuildWork(Tail(feed))

\* Lines 269-277: a pair the inner loop passes over without touching the
\* shared state.
PassedOver(w) ==
    \/ w.stop_id \notin DOMAIN stops
    \/ TooFar(Distance(w.pos, stops[w.stop_id].pos))

RECURSIVE SkipPassedOver(_)
SkipPassedOver(w) ==
    IF w = <<>> THEN <<>>
    ELSE IF PassedOver(Head(w)) THEN SkipPassedOver(Tail(w)) ELSE w

NoPair == [trip_id |-> NoneVal, pos |-> 0, stop_id |-> NoneVal, stop_sequence |-> 0]

\* The None a call returns, as an entry with no field set.
NoEntry == [stop_id |-> NoneVal, stop_sequence |-> 0, timestamp |-> 0, trip_id |-> NoneVal]

NoCall == [trip_id |-> NoneVal, had_entry |-> FALSE, age |-> 0, value |-> NoEntry]

ObsInit ==
    /\ clock = 0
    /\ advances = 0
    /\ vehicle_arrivals = <<>>
    /\ vehicle_latest_arrival = <<>>
    /\ arrival_log = <<>>
    /\ poll_pc = "sleep"
    /\ wake_at = 0
    /\ tick_now = 0
    /\ tick_trips = {}
    /\ work = <<>>
    /\ cur_pair = NoPair
    /\ reader_ret = NoCall

\* Time passes by 0.1 s at any point; by a poll interval or by 59.9 s only
\* while the loop sleeps (the body of a tick is a computation without
\* suspension points).
TimeSteps == {POLL_INTERVAL * 10, 599, 1}

TimePasses ==
    /\ UNCHANGED not_obs_vars
    /\ advances < MaxAdvances
    /\ \E d \in TimeSteps :
         /\ (d > 1 => poll_pc = "sleep")
         /\ clock' = clock + d
    /\ advances' = advances + 1
    /\ UNCHANGED <<vehicle_arrivals, vehicle_latest_arrival, arrival_log, poll_pc,
                   wake_at, tick_now, tick_trips, work, cur_pair, reader_ret>>

\* Variant of the failed request whose exception leaves the loop.
PollFetchFailUncaught ==
    /\ UNCHANGED not_obs_vars
    /\ poll_pc = "sleep"
    /\ clock >= wake_at
    /\ \E failure \in {"status", "network", "decode"} :
           poll_pc' = "ended"
    /\ UNCHANGED <<clock, advances, vehicle_arrivals, vehicle_latest_arrival,
                   arrival_log, wake_at, tick_now, tick_trips, work, cur_pair, reader_ret>>

\* Lines 229-236 and 323-328: the request fails (status other than 200,
\* network error, DecodeError); the loop sleeps and goes on.
PollFetchFail ==
    /\ UNCHANGED not_obs_vars
    /\ poll_pc = "sleep"
    /\ clock >= wake_at
    /\ \E failure \in {"status", "network", "decode"} :
           wake_at' = clock + POLL_INTERVAL * 10
    /\ UNCHANGED <<clock, advances, vehicle_arrivals, vehicle_latest_arrival,
                   arrival_log, poll_pc, tick_now, tick_trips, work, cur_pair, reader_ret>>

\* Lines 231-246: the feed is fetched and parsed, `now` is read.
PollFetchOk ==
    /\ UNCHANGED not_obs_vars
    /\ poll_pc = "sleep"
    /\ clock >= wake_at
    /\ \E feed \in FeedChoices :
         /\ work' = BuildWork(feed)
         /\ tick_trips' = TripIdsInFeed(feed)
    /\ tick_now' = clock
    /\ poll_pc' = "scan"
    /\ UNCHANGED <<clock, advances, vehicle_arrivals, vehicle_latest_arrival,
                   arrival_log, wake_at, cur_pair, reader_ret>>

\* Lines 268-284: the loops advance to the next pair within the threshold
\* and run its dedup check under the lock.
PollScan ==
    /\ UNCHANGED not_obs_vars
    /\ poll_pc = "scan"
    /\ LET w == SkipPassedOver(work)
       IN  IF w = <<>>
           THEN /\ work' = <<>>
                /\ poll_pc' = "touch"
                /\ UNCHANGED <<vehicle_arrivals, cur_pair>>
           ELSE LET h == Head(w)
                    va == IF h.trip_id \notin DOMAIN vehicle_arrivals
                          THEN DictSet(vehicle_arrivals, h.trip_id, {})
                          ELSE vehicle_arrivals
                IN  /\ vehicle_arrivals' = va
                    /\ work' = Tail(w)
                    /\ IF h.stop_id \in va[h.trip_id]
                       THEN /\ poll_pc' = "scan"
                            /\ UNCHANGED cur_pair
                       ELSE /\ poll_pc' = "record"
                            /\ cur_pair' = h
    /\ UNCHANGED <<clock, advances, vehicle_latest_arrival, arrival_log, wake_at,
                   tick_now, tick_trips, reader_ret>>

\* Lines 286-313: the row is appended to the log, then the arrival is stored
\* under the lock.  vehicle_arrivals[trip_id].add raises KeyError when the
\* trip's set is gone; the handler of line 325 ends the tick.
PollRecord ==
    /\ UNCHANGED not_obs_vars
    /\ poll_pc = "record"
    /\ arrival_log' = Append(arrival_log,
                             [trip_id |-> cur_pair.trip_id, stop_id |-> cur_pair.stop_id,
                              timestamp |-> tick_now])
    /\ IF cur_pair.trip_id \notin DOMAIN vehicle_arrivals
       THEN /\ poll_pc' = "sleep"
            /\ wake_at' = clock + POLL_INTERVAL * 10
            /\ work' = <<>>
            /\ UNCHANGED <<vehicle_arrivals, vehicle_latest_arrival>>
       ELSE /\ vehicle_arrivals' =
                  [vehicle_arrivals EXCEPT ![cur_pair.trip_id] = @ \cup {cur_pair.stop_id}]
            /\ vehicle_latest_arrival' =
                  DictSet(vehicle_latest_arrival, cur_pair.trip_id,
                          [stop_id |-> cur_pair.stop_id,
                           stop_sequence |-> cur_pair.stop_sequence,
                           timestamp |-> tick_now,
                           trip_id |-> cur_pair.trip_id,
                           last_seen |-> tick_now])
            /\ poll_pc' = "scan"
            /\ UNCHANGED <<wake_at, work>>
    /\ cur_pair' = NoPair
    /\ UNCHANGED <<clock, advances, tick_now, tick_trips, reader_ret>>

\* Variant of the end of the tick that leaves last_seen alone.
PollTouchWithoutRefresh ==
    /\ UNCHANGED not_obs_vars
    /\ poll_pc = "touch"
    /\ poll_pc' = "sleep"
    /\ wake_at' = clock + POLL_INTERVAL * 10
    /\ tick_trips' = {}
    /\ UNCHANGED <<clock, advances, vehicle_arrivals, vehicle_latest_arrival, arrival_log,
                   tick_now, work, cur_pair, reader_ret>>

\* Lines 315-328: last_seen of the trips of the feed is refreshed, then the
\* loop sleeps.
PollTouch ==
    /\ UNCHANGED not_obs_vars
    /\ poll_pc = "touch"
    /\ vehicle_latest_arrival' =
           [t \in DOMAIN vehicle_latest_arrival |->
               IF t \in tick_trips
               THEN [vehicle_latest_arrival[t] EXCEPT !.last_seen = tick_now]
               ELSE vehicle_latest_arrival[t]]
    /\ poll_pc' = "sleep"
    /\ wake_at' = clock + POLL_INTERVAL * 10
    /\ tick_trips' = {}
    /\ UNCHANGED <<clock, advances, vehicle_arrivals, arrival_log, tick_now, work,
                   cur_pair, reader_ret>>

\* The entry without its last_seen field (line 199).
PublicEntry(e) == [k \in (DOMAIN e) \ {"last_seen"} |-> e[k]]

\* get_latest_arrival(trip_id), called from a request-handler thread.
GetLatestArrival ==
    /\ UNCHANGED not_obs_vars
    /\ \E trip_id \in ObsTrips :
         IF trip_id \notin DOMAIN vehicle_latest_arrival
         THEN /\ reader_ret' = [trip_id |-> trip_id, had_entry |-> FALSE,
                                age |-> 0, value |-> NoEntry]
              /\ UNCHANGED <<vehicle_arrivals, vehicle_latest_arrival>>
         ELSE LET arrival == vehicle_latest_arrival[trip_id]
                  age == clock - arrival.last_seen
              IN  IF CacheExpired(age)
                  THEN /\ vehicle_latest_arrival' = DictDel(vehicle_latest_arrival, trip_id)
                       /\ vehicle_arrivals' =
                              IF trip_id \in DOMAIN vehicle_arrivals
                              THEN DictDel(vehicle_arrivals, trip_id)
                              ELSE vehicle_arrivals
                       /\ reader_ret' = [trip_id |-> trip_id, had_entry |-> TRUE,
                                         age |-> age, value |-> NoEntry]
                  ELSE /\ reader_ret' = [trip_id |-> trip_id, had_entry |-> TRUE,
                                         age |-> age, value |-> PublicEntry(arrival)]
                       /\ UNCHANGED <<vehicle_arrivals, vehicle_latest_arrival>>
    /\ UNCHANGED <<clock, advances, arrival_log, poll_pc, wake_at, tick_now,
                   tick_trips, work, cur_pair>>

\* main.py line 36: the task is cancelled at shutdown; the CancelledError
\* is raised by the sleep the loop awaits and leaves the loop.
Cancel ==
    /\ UNCHANGED not_obs_vars
    /\ poll_pc = "sleep"
    /\ poll_pc' = "cancelled"
    /\ UNCHANGED <<clock, advances, vehicle_arrivals, vehicle_latest_arrival,
                   arrival_log, wake_at, tick_now, tick_trips, work, cur_pair, reader_ret>>

ObsNext ==
    \/ TimePasses
    \/ PollFetchFail
    \/ PollFetchOk
    \/ PollScan
    \/ PollRecord
    \/ PollTouch
    \/ GetLatestArrival

\* The observer until shutdown.
PollLoopNext == ObsNext \/ Cancel

\* The start of the loop, followed over MaxAdvances - 1 advances of the
\* clock.
PollLoopInit ==
    /\ clock = 0
    /\ advances = 1
    /\ vehicle_arrivals = <<>>
    /\ vehicle_latest_arrival = <<>>
    /\ arrival_log = <<>>
    /\ poll_pc = "sleep"
    /\ wake_at = 0
    /\ tick_now = 0
    /\ tick_trips = {}
    /\ work = <<>>
    /\ cur_pair = NoPair
    /\ reader_ret = NoCall

\* A step of the loop: the request of line 231 when the sleep is over, or
\* the next step of the body of the tick that is running.  At most one of
\* them is enabled at a time.
PollStep == PollFetchFail \/ PollFetchOk \/ PollScan \/ PollRecord \/ PollTouch

\* The event loop resumes the task when its sleep is over, the request
\* returns or raises within REQUEST_TIMEOUT, the body of a tick runs to its
\* end, and time goes on.
PollLoopFairness == WF_vars(TimePasses) /\ WF_vars(PollStep)
(***************************************************************************)
(* RAPTOR engine and orchestrator: raptor_service.py,                      *)
(* navigation_service.py, routes_service.py                                *)
(*                                                                         *)
(* Stops lie on one street; a coordinate is a position in metres and the   *)
(* haversine distance of two points is the difference of their positions.  *)
(* Leg distances are kept in tenths of a metre.  A time string is the      *)
(* triple of its fields.                                                   *)
(***************************************************************************)
MaxTrips == 3

MAX_WALKING_DISTANCE_M == 500
MAX_RESULTS == 5
MAX_TRANSFERS == 3
SEARCH_WINDOW_HOURS == 4
TRANSFER_TIME == 180

\* float("inf")
Inf == 99999999

\* Stops the stops table may hold, in row order.
StopList == <<"A", "B", "C", "D", "E", "F">>

AllStops == Range(StopList)

\* F is co-located with C.
StopPos == [A |-> 0, B |-> 445, C |-> 1112, D |-> 1500, E |-> 1900, F |-> 1112]

StopNames == [A |-> "Stop A", B |-> "Stop B", C |-> "Stop C", D |-> "Stop D", E |-> "Stop E",
              F |-> "Stop F"]

\* timetable.stops of a query's static data, in dict order.
StopsInForce(q) == SelectSeq(StopList, LAMBDA s : s \in q.stops)

\* RaptorService.haversine, in metres
Haversine(p, q) == IF p >= q THEN p - q ELSE q - p

\* int(distance / WALKING_SPEED_MS) with WALKING_SPEED_MS = 1.4
WalkSeconds(dist) == (dist * 10) \div 14

\* time_to_seconds(time_str)
TimeToSeconds(t) == t[1] * 3600 + t[2] * 60 + t[3]

\* A stop-time row of the realistic table: arrival and departure carry the
\* same synthesised time.
StopTimeRow(stop, t) == [stop_id |-> stop, arrival_time |-> t, departure_time |-> t]

\* Trips the realistic table may hold, rows in stop_sequence order.
TripPool ==
    [t1 |-> [route_id |-> "R1",
             stop_times |-> << StopTimeRow("A", <<10, 0, 0>>), StopTimeRow("C", <<10, 10, 0>>) >>],
     t2 |-> [route_id |-> "R1",
             stop_times |-> << StopTimeRow("A", <<10, 0, 0>>), StopTimeRow("B", <<10, 5, 0>>) >>],
     t3 |-> [route_id |-> "R2",
             stop_times |-> << StopTimeRow("B", <<10, 10, 0>>), StopTimeRow("C", <<10, 20, 0>>) >>],
     t4 |-> [route_id |-> "R1",
             stop_times |-> << StopTimeRow("B", <<10, 10, 0>>), StopTimeRow("D", <<10, 15, 0>>) >>],
     t5 |-> [route_id |-> "R3",
             stop_times |-> << StopTimeRow("A", <<13, 50, 0>>), StopTimeRow("D", <<13, 59, 50>>) >>],
     t6 |-> [route_id |-> "R4",
             stop_times |-> << StopTimeRow("A", <<10, 1, 0>>), StopTimeRow("D", <<10, 30, 0>>) >>],
     t7 |-> [route_id |-> "R1",
             stop_times |-> << StopTimeRow("A", <<10, 6, 0>>), StopTimeRow("C", <<10, 19, 0>>) >>],
     t8 |-> [route_id |-> "R3",
             stop_times |-> << StopTimeRow("A", <<25, 30, 0>>), StopTimeRow("C", <<25, 40, 0>>) >>],
     t9 |-> [route_id |-> "R1",
             stop_times |-> << StopTimeRow("A", <<10, 0, 0>>), StopTimeRow("B", <<10, 4, 0>>) >>],
     u1 |-> [route_id |-> "R1",
             stop_times |-> << StopTimeRow("A", <<11, 25, 0>>), StopTimeRow("B", <<11, 35, 0>>) >>],
     u2 |-> [route_id |-> "R3",
             stop_times |-> << StopTimeRow("B", <<23, 40, 0>>), StopTimeRow("C", <<23, 50, 0>>) >>],
     c1 |-> [route_id |-> "R1",
             stop_times |-> << StopTimeRow("A", <<10, 0, 0>>), StopTimeRow("B", <<10, 5, 0>>) >>],
     c2 |-> [route_id |-> "R2",
             stop_times |-> << StopTimeRow("B", <<10, 10, 0>>), StopTimeRow("F", <<10, 20, 0>>) >>],
     c3 |-> [route_id |-> "R3",
             stop_times |-> << StopTimeRow("C", <<10, 25, 0>>), StopTimeRow("D", <<10, 30, 0>>) >>],
     c4 |-> [route_id |-> "R4",
             stop_times |-> << StopTimeRow("D", <<10, 35, 0>>), StopTimeRow("E", <<10, 40, 0>>) >>],
     c5 |-> [route_id |-> "R4",
             stop_times |-> << StopTimeRow("B", <<10, 11, 0>>), StopTimeRow("C", <<10, 21, 0>>) >>]]

\* Key order of timetable.stop_times_by_trip (query ordered by trip_id).
TripList == <<"c1", "c2", "c3", "c4", "c5", "t1", "t2", "t3", "t4", "t5", "t6", "t7", "t8", "t9", "u1", "u2">>

\* Rows the routes table may hold; NoRow when the route is missing.
NoRow == [route_type |-> "", route_short_name |-> "", present |-> FALSE]

RouteRow(type, name) == [route_type |-> type, route_short_name |-> name, present |-> TRUE]

RoutesTables ==
    { [R1 |-> RouteRow("3", "84"), R2 |-> RouteRow("3", "85"),
       R3 |-> RouteRow("0", "5"), R4 |-> RouteRow("11", "9")],
      [R1 |-> RouteRow("3", "84"), R2 |-> RouteRow("3", "84"),
       R3 |-> RouteRow("0", "5"), R4 |-> RouteRow("7", "9")],
      [R1 |-> NoRow, R2 |-> RouteRow("3", ""),
       R3 |-> RouteRow("1", "2"), R4 |-> RouteRow("11", "9")] }

\* ROUTE_TYPE_PREFIX.get(str(route_type), "")
RoutePrefix(type) ==
    CASE type = "0" -> "TM"
      [] type = "11" -> "TB"
      [] type = "1" -> "M"
      [] type = "3" -> "A"
      [] OTHER -> ""

\* Python None as a real-life id
NoneId == <<>>

\* RoutesService.get_reallife_id: prefix and short name, kept as a pair.
GetReallifeId(q, route_id) ==
    LET route == q.routes_table[route_id]
    IN  IF ~route.present \/ route.route_short_name = "" THEN NoneId
        ELSE <<RoutePrefix(route.route_type), route.route_short_name>>

StopSets == {{"A", "B", "C"}, {"A", "B", "C", "D", "E"}}
Origins == {0, -84}
Destinations == {1112, 1504, 2300}
\* Queries of the morning go with the trips of the morning, queries around
\* midnight with the trips around midnight, queries of the late evening with
\* a trip of the late morning and a trip of the late evening.
MorningDepartures == {<<9, 56, 0>>, <<9, 57, 0>>, <<9, 58, 0>>, <<10, 0, 0>>}
MidnightDepartures == {<<0, 15, 0>>}
EveningDepartures == {<<23, 30, 0>>}
ChainDepartures == {<<9, 56, 0>>}
Departures ==
    MorningDepartures \cup MidnightDepartures \cup EveningDepartures \cup ChainDepartures

MidnightTrips == {"t8"}
EveningTrips == {"u1", "u2"}
\* A timetable whose trips connect end to end over all the stops.
ChainTrips == {"c1", "c2", "c3", "c4", "c5"}
MorningTrips == (DOMAIN TripPool) \ (MidnightTrips \cup EveningTrips \cup ChainTrips)

TimesOfDay ==
    { [trips |-> MorningTrips, departures |-> MorningDepartures, stops |-> StopSets],
      [trips |-> MidnightTrips, departures |-> MidnightDepartures, stops |-> StopSets],
      [trips |-> EveningTrips, departures |-> EveningDepartures, stops |-> StopSets],
      [trips |-> ChainTrips, departures |-> ChainDepartures, stops |-> {AllStops}] }

SameTimeOfDay(ts, dep) ==
    \E f \in TimesOfDay : ts \subseteq f.trips /\ dep \in f.departures

\* Timetables over a set of stops: at most MaxTrips trips of the pool, or
\* the whole chain.
TripSets(ss) ==
    {ts \in SUBSET (DOMAIN TripPool) :
        /\ Cardinality(ts) <= MaxTrips \/ ts = ChainTrips
        /\ \A t \in ts : \A i \in 1..Len(TripPool[t].stop_times) :
              TripPool[t].stop_times[i].stop_id \in ss}

\* find_nearby_stops(lat, lon): stops within 500 m, nearest first (stable
\* sort on the distance), at most 15.
RECURSIVE InsertByDistance(_, _)
InsertByDistance(x, s) ==
    IF s = <<>> THEN <<x>>
    ELSE IF x.distance < Head(s).distance THEN <<x>> \o s
    ELSE <<Head(s)>> \o InsertByDistance(x, Tail(s))

RECURSIVE SortByDistance(_)
SortByDistance(s) ==
    IF s = <<>> THEN <<>>
    ELSE InsertByDistance(s[Len(s)], SortByDistance(SubSeq(s, 1, Len(s) - 1)))

FindNearbyStops(q, pos) ==
    LET sl == StopsInForce(q)
        all == [i \in 1..Len(sl) |->
                   [stop_id |-> sl[i],
                    distance |-> Haversine(pos, StopPos[sl[i]]),
                    walking_time |-> WalkSeconds(Haversine(pos, StopPos[sl[i]]))]]
        near == SelectSeq(all, LAMBDA n : n.distance <= MAX_WALKING_DISTANCE_M)
        sorted == SortByDistance(near)
    IN  SubSeq(sorted, 1, IF Len(sorted) < 15 THEN Len(sorted) ELSE 15)

\* _build_transfer_graph: the pairs it links.  0.01 degree of longitude is
\* 1112 m on this street.
TransferEdge(a, b) ==
    /\ a /= b
    /\ Haversine(StopPos[a], StopPos[b]) <= 1112
    /\ Haversine(StopPos[a], StopPos[b]) <= MAX_WALKING_DISTANCE_M

\* Variant that records the edge at its first stop only.
AddTransferOneWay(tr, id1, id2, walk_time) ==
    [tr EXCEPT ![id1] = Append(@, [stop_id |-> id2, walk_seconds |-> walk_time])]

\* transfers[id1].append((id2, walk_time)); transfers[id2].append((id1, walk_time))
AddTransfer(tr, id1, id2, walk_time) ==
    [tr EXCEPT ![id1] = Append(@, [stop_id |-> id2, walk_seconds |-> walk_time]),
               ![id2] = Append(@, [stop_id |-> id1, walk_seconds |-> walk_time])]

\* The nested loops over pairs i < j of the stops list.
RECURSIVE LinkPairs(_, _, _, _)
LinkPairs(tr, sl, i, j) ==
    IF i > Len(sl) THEN tr
    ELSE IF j > Len(sl) THEN LinkPairs(tr, sl, i + 1, i + 2)
    ELSE IF TransferEdge(sl[i], sl[j])
         THEN LinkPairs(AddTransfer(tr, sl[i], sl[j],
                            WalkSeconds(Haversine(StopPos[sl[i]], StopPos[sl[j]]))),
                        sl, i, j + 1)
    ELSE LinkPairs(tr, sl, i, j + 1)

\* _build_transfer_graph(): the defaultdict as a total map, [] where
\* nothing was appended.
BuildTransferGraph(q) ==
    LinkPairs([s \in AllStops |-> <<>>], StopsInForce(q), 1, 2)

\* self.transfers[s]
Transfers(q, s) == BuildTransferGraph(q)[s]

\* sorted(stop_times, key=departure seconds) (stable)
RECURSIVE InsertByDeparture(_, _)
InsertByDeparture(x, s) ==
    IF s = <<>> THEN <<x>>
    ELSE IF TimeToSeconds(x.departure_time) < TimeToSeconds(Head(s).departure_time)
         THEN <<x>> \o s
    ELSE <<Head(s)>> \o InsertByDeparture(x, Tail(s))

RECURSIVE SortByDeparture(_)
SortByDeparture(s) ==
    IF s = <<>> THEN <<>>
    ELSE InsertByDeparture(s[Len(s)], SortByDeparture(SubSeq(s, 1, Len(s) - 1)))

\* The trips of the timetable in force, in key order.
ActiveTrips(q) == SelectSeq(TripList, LAMBDA t : t \in q.trips)

\* virtual_route_id: the route id with the stop pattern (the hash of the
\* pattern stands for the pattern).
VirtualRouteId(t) ==
    <<TripPool[t].route_id,
      [i \in 1..Len(TripPool[t].stop_times) |->
          SortByDeparture(TripPool[t].stop_times)[i].stop_id]>>

\* Keys of trips_by_route in insertion order.
RECURSIVE VirtualRoutes(_, _)
VirtualRoutes(ts, seen) ==
    IF ts = <<>> THEN <<>>
    ELSE LET v == VirtualRouteId(Head(ts))
         IN  IF v \in seen THEN VirtualRoutes(Tail(ts), seen)
             ELSE <<v>> \o VirtualRoutes(Tail(ts), seen \cup {v})

\* trips_by_route[v]: (trip_id, sorted_stops) in insertion order.
TripsOfRoute(q, v) ==
    LET ts == SelectSeq(ActiveTrips(q), LAMBDA t : VirtualRouteId(t) = v)
    IN  [i \in 1..Len(ts) |->
            [trip_id |-> ts[i], stop_times |-> SortByDeparture(TripPool[ts[i]].stop_times)]]

\* ---- labels ----

\* The empty dict a parent slot holds until it is set.
NoParent == [type |-> "none"]

\* tau[stop_id][k]
TauAt(t, s, k) == t[s][k + 1]

\* parent[stop_id][k]
ParentAt(p, s, k) == p[s][k + 1]

\* The defaultdicts as total maps: inf and {} wherever nothing was stored.
EmptyTau == [s \in AllStops |-> [i \in 1..(MAX_TRANSFERS + 2) |-> Inf]]
EmptyParent == [s \in AllStops |-> [i \in 1..(MAX_TRANSFERS + 2) |-> NoParent]]

\* Round 0: walking from the origin to each nearby stop.
RECURSIVE InitOriginWalks(_, _, _)
InitOriginWalks(lab, q, os) ==
    IF os = <<>> THEN lab
    ELSE LET o == Head(os)
             arrival == TimeToSeconds(q.departure) + o.walking_time
         IN  InitOriginWalks(
                 [lab EXCEPT !.tau[o.stop_id][1] = arrival,
                             !.parent[o.stop_id][1] =
                                 [type |-> "walk", from_lat_lon |-> q.origin,
                                  to_stop |-> o, arrival |-> arrival]],
                 q, Tail(os))

\* Marked stops of round k
MarkedStops(t, k) == {s \in AllStops : TauAt(t, s, k - 1) < Inf}

\* Times after midnight: a raw time more than 12 h before the trip's first
\* stop, or before the query, is moved to the next day.
NormaliseTime(raw, first_stop_time, departure_time_seconds) ==
    LET t == IF raw < first_stop_time - 43200 THEN raw + 86400 ELSE raw
    IN  IF t < departure_time_seconds - 43200 THEN t + 86400 ELSE t

CanBoardWithoutBuffer(dep_time, earliest_arrival, best_boarding_time) ==
    /\ ~(dep_time < earliest_arrival)
    /\ ~(dep_time >= best_boarding_time)

CanBoardWhenGone(dep_time, earliest_arrival, best_boarding_time) ==
    ~(dep_time >= best_boarding_time)

\* Variant of the boarding tests in which a later pair of equal departure
\* replaces the one kept.
CanBoardLastOfTies(dep_time, earliest_arrival, best_boarding_time) ==
    /\ ~(dep_time < earliest_arrival)
    /\ ~(earliest_arrival + TRANSFER_TIME > dep_time)
    /\ ~(dep_time > best_boarding_time)

\* The three "continue" tests of the boarding scan, negated.
CanBoard(dep_time, earliest_arrival, best_boarding_time) ==
    /\ ~(dep_time < earliest_arrival)
    /\ ~(earliest_arrival + TRANSFER_TIME > dep_time)
    /\ ~(dep_time >= best_boarding_time)

\* Scan of one trip: index of the first marked stop it can be boarded at,
\* 0 when there is none.
RECURSIVE ScanTrip(_, _, _, _, _, _, _)
ScanTrip(stop_times, idx, marked, t, k, dep_q, best_boarding_time) ==
    IF idx > Len(stop_times) THEN 0
    ELSE LET st == stop_times[idx]
             first_stop_time == TimeToSeconds(stop_times[1].departure_time)
             dep_time == NormaliseTime(TimeToSeconds(st.departure_time),
                                       first_stop_time, dep_q)
         IN  IF st.stop_id \in marked
                /\ CanBoard(dep_time, TauAt(t, st.stop_id, k - 1), best_boarding_time)
             THEN idx
             ELSE ScanTrip(stop_times, idx + 1, marked, t, k, dep_q, best_boarding_time)

NoBest == [trip |-> 0, boarding_idx |-> 0, boarding_time |-> Inf]

\* The loop over the trips of one route: best_trip and its boarding.
RECURSIVE ScanTrips(_, _, _, _, _, _, _)
ScanTrips(trips, i, marked, t, k, dep_q, best) ==
    IF i > Len(trips) THEN best
    ELSE LET stop_times == trips[i].stop_times
             idx == ScanTrip(stop_times, 1, marked, t, k, dep_q, best.boarding_time)
             first_stop_time == TimeToSeconds(stop_times[1].departure_time)
         IN  IF idx = 0 THEN ScanTrips(trips, i + 1, marked, t, k, dep_q, best)
             ELSE ScanTrips(trips, i + 1, marked, t, k, dep_q,
                     [trip |-> i, boarding_idx |-> idx,
                      boarding_time |->
                          NormaliseTime(TimeToSeconds(stop_times[idx].departure_time),
                                        first_stop_time, dep_q)])

\* arr_time > departure_time_seconds + SEARCH_WINDOW_HOURS * 3600
BeyondWindow(arr_time, dep_q) == arr_time > dep_q + SEARCH_WINDOW_HOURS * 3600

\* Riding the chosen trip from the stop after the boarding stop.
RECURSIVE Alight(_, _, _, _, _, _)
Alight(lab, trip, best, idx, k, dep_q) ==
    IF idx > Len(trip.stop_times) THEN lab
    ELSE LET st == trip.stop_times[idx]
             first_stop_time == TimeToSeconds(trip.stop_times[1].departure_time)
             arr_time == NormaliseTime(TimeToSeconds(st.arrival_time),
                                       first_stop_time, dep_q)
             boarding_st == trip.stop_times[best.boarding_idx]
         IN  IF ~BeyondWindow(arr_time, dep_q) /\ arr_time < TauAt(lab.tau, st.stop_id, k)
             THEN Alight(
                     [tau |-> [lab.tau EXCEPT ![st.stop_id][k + 1] = arr_time],
                      parent |-> [lab.parent EXCEPT ![st.stop_id][k + 1] =
                                     [type |-> "transit",
                                      trip_id |-> trip.trip_id,
                                      boarding_stop |-> boarding_st.stop_id,
                                      boarding_time |-> best.boarding_time,
                                      boarding_st |-> boarding_st,
                                      arrival_stop |-> st.stop_id,
                                      arrival_time |-> arr_time,
                                      arrival_st |-> st]],
                      updated |-> lab.updated \cup {st.stop_id}],
                     trip, best, idx + 1, k, dep_q)
             ELSE Alight(lab, trip, best, idx + 1, k, dep_q)

\* One route of the transit phase.
RideRoute(lab, q, v, marked, k) ==
    LET trips == TripsOfRoute(q, v)
        sample_stops == trips[1].stop_times
        dep_q == TimeToSeconds(q.departure)
        best == ScanTrips(trips, 1, marked, lab.tau, k, dep_q, NoBest)
    IN  IF ~(\E i \in 1..Len(sample_stops) : sample_stops[i].stop_id \in marked)
        THEN lab
        ELSE IF best.trip = 0 THEN lab
        ELSE Alight(lab, trips[best.trip], best, best.boarding_idx + 1, k, dep_q)

RECURSIVE RideRoutes(_, _, _, _, _)
RideRoutes(lab, q, vs, marked, k) ==
    IF vs = <<>> THEN lab
    ELSE RideRoutes(RideRoute(lab, q, Head(vs), marked, k), q, Tail(vs), marked, k)

\* Phase 1 of round k, over trips_by_route in insertion order.
TransitPhase(lab, q, k) ==
    RideRoutes([lab EXCEPT !.updated = {}], q,
               VirtualRoutes(ActiveTrips(q), {}), MarkedStops(lab.tau, k), k)

\* Variant of the test of a transfer that also takes an equal arrival.
ImprovesOrEquals(walk_arrival, label) == walk_arrival <= label

\* walk_arrival < tau[neighbor_id][k] (line 303)
Improves(walk_arrival, label) == walk_arrival < label

\* Phase 2 for one stop: its neighbours are relaxed from the label the stop
\* has when its turn comes.
RECURSIVE RelaxNeighbours(_, _, _, _, _)
RelaxNeighbours(lab, stop_id, arrival_time, nbs, k) ==
    IF nbs = <<>> THEN lab
    ELSE LET n == Head(nbs)
             walk_arrival == arrival_time + n.walk_seconds
         IN  IF Improves(walk_arrival, TauAt(lab.tau, n.stop_id, k))
             THEN RelaxNeighbours(
                     [lab EXCEPT !.tau[n.stop_id][k + 1] = walk_arrival,
                                 !.parent[n.stop_id][k + 1] =
                                     [type |-> "transfer",
                                      from_stop_id |-> stop_id,
                                      to_stop_id |-> n.stop_id,
                                      arrival |-> walk_arrival,
                                      walk_time |-> n.walk_seconds]],
                     stop_id, arrival_time, Tail(nbs), k)
             ELSE RelaxNeighbours(lab, stop_id, arrival_time, Tail(nbs), k)

TransferFrom(lab, q, stop_id, k) ==
    RelaxNeighbours(lab, stop_id, TauAt(lab.tau, stop_id, k), Transfers(q, stop_id), k)

\* ---- candidates ----

\* The orders a set can be iterated in.
Orders(S) == {f \in [1..Cardinality(S) -> S] : Range(f) = S}

\* The iteration that visits stops in table order.
TableOrder(S) == SelectSeq(StopList, LAMBDA s : s \in S)

\* for dest_id in dest_stop_ids: for k in range(MAX_TRANSFERS + 2)
RECURSIVE CandidatesOf(_, _, _, _)
CandidatesOf(t, q, dest_id, k) ==
    IF k > MAX_TRANSFERS + 1 THEN <<>>
    ELSE LET arrival_time == TauAt(t, dest_id, k)
             search_window_end == TimeToSeconds(q.departure) + SEARCH_WINDOW_HOURS * 3600
         IN  (IF arrival_time < Inf /\ arrival_time <= search_window_end
              THEN << [arrival_time |-> arrival_time, dest_id |-> dest_id, round |-> k] >>
              ELSE <<>>)
             \o CandidatesOf(t, q, dest_id, k + 1)

RECURSIVE CollectCandidates(_, _, _)
CollectCandidates(t, q, order) ==
    IF order = <<>> THEN <<>>
    ELSE CandidatesOf(t, q, Head(order), 0) \o CollectCandidates(t, q, Tail(order))

\* candidate_routes.sort(key=arrival time) (stable)
RECURSIVE InsertByArrival(_, _)
InsertByArrival(x, s) ==
    IF s = <<>> THEN <<x>>
    ELSE IF x.arrival_time < Head(s).arrival_time THEN <<x>> \o s
    ELSE <<Head(s)>> \o InsertByArrival(x, Tail(s))

RECURSIVE SortByArrival(_)
SortByArrival(s) ==
    IF s = <<>> THEN <<>>
    ELSE InsertByArrival(s[Len(s)], SortByArrival(SubSeq(s, 1, Len(s) - 1)))

\* ---- reconstruction ----

\* {"lat": ..., "lon": ...}
CoordPoint(pos) == [lat_lon |-> pos]

\* {"lat": ..., "lon": ..., "stop_id": ..., "stop_name": ...}
StopPoint(s) == [lat_lon |-> StopPos[s], stop_id |-> s, stop_name |-> StopNames[s]]

\* Steps the parent walk may take before it is cut off; a legitimate walk
\* visits each (stop, round) slot at most once.
MaxBacktrack == Len(StopList) * (MAX_TRANSFERS + 2) + 1

Runaway == [type |-> "runaway"]

\* while current_round >= 0: follow parent[current_stop][current_round]
RECURSIVE Backtrack(_, _, _, _, _)
Backtrack(p, current_stop, current_round, legs, fuel) ==
    IF current_round < 0 THEN legs
    ELSE IF fuel = 0 THEN <<Runaway>> \o legs
    ELSE LET leg_info == ParentAt(p, current_stop, current_round)
         IN  CASE leg_info.type = "none" -> legs
               [] leg_info.type = "walk" ->
                    << [type |-> "walk",
                        from |-> CoordPoint(leg_info.from_lat_lon),
                        to |-> StopPoint(leg_info.to_stop.stop_id),
                        distance_m |-> leg_info.to_stop.distance * 10,
                        duration_seconds |-> leg_info.to_stop.walking_time] >> \o legs
               [] leg_info.type = "transfer" ->
                    Backtrack(p, leg_info.from_stop_id, current_round,
                        << [type |-> "walk",
                            from |-> StopPoint(leg_info.from_stop_id),
                            to |-> StopPoint(leg_info.to_stop_id),
                            distance_m |-> leg_info.walk_time * 14,
                            duration_seconds |-> leg_info.walk_time] >> \o legs,
                        fuel - 1)
               [] leg_info.type = "transit" ->
                    Backtrack(p, leg_info.boarding_stop, current_round - 1,
                        << [type |-> "transit",
                            route_id |-> TripPool[leg_info.trip_id].route_id,
                            trip_id |-> leg_info.trip_id,
                            from_stop_id |-> leg_info.boarding_st.stop_id,
                            to_stop_id |-> leg_info.arrival_st.stop_id,
                            from_stop_name |-> StopNames[leg_info.boarding_st.stop_id],
                            to_stop_name |-> StopNames[leg_info.arrival_st.stop_id],
                            departure_time |-> leg_info.boarding_st.departure_time,
                            arrival_time |-> leg_info.arrival_st.arrival_time] >> \o legs,
                        fuel - 1)

\* next(d for d in dest_stops if d["stop_id"] == best_dest)
DestStopInfo(q, best_dest) ==
    LET ds == FindNearbyStops(q, q.destination)
    IN  ds[CHOOSE i \in 1..Len(ds) :
              /\ ds[i].stop_id = best_dest
              /\ \A j \in 1..(i - 1) : ds[j].stop_id /= best_dest]

FinalWalk(q, best_dest) ==
    [type |-> "walk",
     from |-> StopPoint(best_dest),
     to |-> CoordPoint(q.destination),
     distance_m |-> DestStopInfo(q, best_dest).distance * 10,
     duration_seconds |-> DestStopInfo(q, best_dest).walking_time]

\* Number of walk legs at the head of a list.
RECURSIVE LeadingWalks(_)
LeadingWalks(legs) ==
    IF legs = <<>> THEN 0
    ELSE IF Head(legs).type = "walk" THEN 1 + LeadingWalks(Tail(legs))
    ELSE 0

RECURSIVE SumField(_, _)
SumField(legs, distance) ==
    IF legs = <<>> THEN 0
    ELSE (IF distance THEN Head(legs).distance_m ELSE Head(legs).duration_seconds)
         + SumField(Tail(legs), distance)

MergeNothing(legs) == legs

\* _merge_consecutive_walk_legs(legs)
RECURSIVE MergeConsecutiveWalkLegs(_)
MergeConsecutiveWalkLegs(legs) ==
    IF legs = <<>> THEN legs
    ELSE LET n == LeadingWalks(legs)
             consecutive_walks == SubSeq(legs, 1, n)
         IN  IF n >= 2
             THEN << [type |-> "walk",
                      from |-> consecutive_walks[1].from,
                      to |-> consecutive_walks[n].to,
                      distance_m |-> SumField(consecutive_walks, TRUE),
                      duration_seconds |-> SumField(consecutive_walks, FALSE)] >>
                  \o MergeConsecutiveWalkLegs(SubSeq(legs, n + 1, Len(legs)))
             ELSE <<Head(legs)>> \o MergeConsecutiveWalkLegs(Tail(legs))

TransitLegs(legs) == SelectSeq(legs, LAMBDA leg : leg.type = "transit")

\* has_duplicate_route_transfer(legs): on the timetable's route ids
HasDuplicateRouteTransfer(legs) ==
    LET transit_legs == TransitLegs(legs)
    IN  \E i \in 1..(Len(transit_legs) - 1) :
            transit_legs[i].route_id = transit_legs[i + 1].route_id

RejectNegativeOnly(total_time) == total_time < 0

\* total_time < 0 or total_time > SEARCH_WINDOW_HOURS * 3600
RejectDuration(total_time) ==
    total_time < 0 \/ total_time > SEARCH_WINDOW_HOURS * 3600

\* One pass of the loop over candidate_routes: what it appends to
\* temp_results.
ReconstructOne(p, q, c) ==
    LET raw == Backtrack(p, c.dest_id, c.round, <<>>, MaxBacktrack)
        final_walk == FinalWalk(q, c.dest_id)
        legs == MergeConsecutiveWalkLegs(Append(raw, final_walk))
        total_time == c.arrival_time - TimeToSeconds(q.departure)
                      + final_walk.duration_seconds
    IN  IF HasDuplicateRouteTransfer(legs) THEN <<>>
        ELSE IF RejectDuration(total_time) THEN <<>>
        ELSE << [dest_stop |-> c.dest_id,
                 total_time |-> total_time,
                 transfer_count |-> Len(TransitLegs(legs)),
                 legs |-> legs] >>

\* ---- pruning, deduplication, truncation ----

MinOf(S) == CHOOSE x \in S : \A y \in S : x <= y

\* _get_transit_signature(legs)
TransitSignature(legs) ==
    LET transit_legs == TransitLegs(legs)
    IN  [i \in 1..Len(transit_legs) |->
            <<transit_legs[i].route_id, transit_legs[i].from_stop_id,
              transit_legs[i].to_stop_id>>]

\* The key of min() in the deduplication: the duration of the first walk
\* leg, 0 without one.
FirstWalkDuration(legs) ==
    LET walks == SelectSeq(legs, LAMBDA leg : leg.type = "walk")
    IN  IF walks = <<>> THEN 0 ELSE walks[1].duration_seconds

\* Signatures in the order transit_groups first sees them.
RECURSIVE SignaturesOf(_, _)
SignaturesOf(results, seen) ==
    IF results = <<>> THEN <<>>
    ELSE LET sig == TransitSignature(Head(results).legs)
         IN  IF sig \in seen THEN SignaturesOf(Tail(results), seen)
             ELSE <<sig>> \o SignaturesOf(Tail(results), seen \cup {sig})

\* min(group, key=...): the first of the smallest.
MinWalkResult(group) ==
    LET least == MinOf({FirstWalkDuration(group[i].legs) : i \in 1..Len(group)})
        first == CHOOSE i \in 1..Len(group) :
                    /\ FirstWalkDuration(group[i].legs) = least
                    /\ \A j \in 1..(i - 1) : FirstWalkDuration(group[j].legs) /= least
    IN  group[first]

\* _filter_duplicate_routes_different_walk(results)
FilterDuplicateRoutesDifferentWalk(results) ==
    LET sigs == SignaturesOf(results, {})
    IN  [i \in 1..Len(sigs) |->
            MinWalkResult(SelectSeq(results,
                LAMBDA r : TransitSignature(r.legs) = sigs[i]))]

\* A pruning test that looks at the total time only.
KeepWithinThresholdOnly(r, threshold_time, min_transfers) ==
    r.total_time <= threshold_time

\* The test of the pruning loop: within the threshold, or of the least
\* transit-leg count.
KeepResult(r, threshold_time, min_transfers) ==
    r.total_time <= threshold_time \/ r.transfer_count <= min_transfers

\* The tail of run: pruning, deduplication, truncation, clean_results.
FinalResults(temp) ==
    IF temp = <<>> THEN <<>>
    ELSE LET fastest_time == MinOf({temp[i].total_time : i \in 1..Len(temp)})
             threshold_time == fastest_time + 60
             min_transfers == MinOf({temp[i].transfer_count : i \in 1..Len(temp)})
             kept == SelectSeq(temp, LAMBDA r :
                         KeepResult(r, threshold_time, min_transfers))
             deduped == FilterDuplicateRoutesDifferentWalk(kept)
             top == SubSeq(deduped, 1,
                        IF Len(deduped) < MAX_RESULTS THEN Len(deduped) ELSE MAX_RESULTS)
         IN  [i \in 1..Len(top) |->
                 [dest_stop |-> top[i].dest_stop,
                  total_time |-> top[i].total_time,
                  legs |-> top[i].legs]]

\* ---- orchestrator ----

\* The formatted leg of the response.
FormatLeg(q, leg) ==
    IF leg.type = "walk"
    THEN [type |-> "walk", from |-> leg.from, to |-> leg.to,
          distance_m |-> leg.distance_m, duration_seconds |-> leg.duration_seconds]
    ELSE [type |-> "transit",
          route_id |-> GetReallifeId(q, leg.route_id),
          trip_id |-> leg.trip_id,
          from_stop_id |-> leg.from_stop_id,
          to_stop_id |-> leg.to_stop_id,
          from_stop_name |-> leg.from_stop_name,
          to_stop_name |-> leg.to_stop_name,
          departure_time |-> leg.departure_time,
          arrival_time |-> leg.arrival_time]

\* formatted_routes of navigate: the first five results.
FormatRoutes(q, results) ==
    LET top == SubSeq(results, 1, IF Len(results) < 5 THEN Len(results) ELSE 5)
    IN  [i \in 1..Len(top) |->
            [total_time_seconds |-> top[i].total_time,
             legs |-> [j \in 1..Len(top[i].legs) |-> FormatLeg(q, top[i].legs[j])]]]

\* ---- a navigation request, step by step ----

\* Static data and request of one call of navigate.
Queries ==
    UNION UNION { { {[stops |-> ss, trips |-> ts, routes_table |-> rt,
              origin |-> o, destination |-> d, departure |-> dep] :
                ts \in {x \in SUBSET f.trips : x \in TripSets(ss)}, rt \in RoutesTables,
                o \in Origins, d \in Destinations, dep \in f.departures} :
            ss \in f.stops } : f \in TimesOfDay }

RaptorInit ==
    /\ query \in {q \in Queries : SameTimeOfDay(q.trips, q.departure)}
    /\ tau = EmptyTau
    /\ parent = EmptyParent
    /\ round = 0
    /\ updated_left = {}
    /\ candidates = <<>>
    /\ temp_results = <<>>
    /\ routes = <<>>
    /\ response = <<>>
    /\ raptor_pc = "called"

\* No request in progress.
RaptorIdle ==
    /\ query = [stops |-> {}, trips |-> {}, routes_table |-> <<>>,
                origin |-> 0, destination |-> 0, departure |-> <<0, 0, 0>>]
    /\ tau = EmptyTau
    /\ parent = EmptyParent
    /\ round = 0
    /\ updated_left = {}
    /\ candidates = <<>>
    /\ temp_results = <<>>
    /\ routes = <<>>
    /\ response = <<>>
    /\ raptor_pc = "idle"

\* run, up to the main loop: nearby stops, the early return, round 0.
RunBegin ==
    /\ UNCHANGED not_raptor_vars
    /\ raptor_pc = "called"
    /\ LET origin_stops == FindNearbyStops(query, query.origin)
           dest_stops == FindNearbyStops(query, query.destination)
           lab == InitOriginWalks([tau |-> tau, parent |-> parent, updated |-> {}],
                                  query, origin_stops)
       IN  IF origin_stops = <<>> \/ dest_stops = <<>>
           THEN /\ raptor_pc' = "returned"
                /\ UNCHANGED <<tau, parent, round>>
           ELSE /\ tau' = lab.tau
                /\ parent' = lab.parent
                /\ round' = 1
                /\ raptor_pc' = "round"
    /\ UNCHANGED <<query, updated_left, candidates, temp_results, routes, response>>

\* Top of round k and its transit phase; without marked stops the loop ends.
RoundTransit ==
    /\ UNCHANGED not_raptor_vars
    /\ raptor_pc = "round"
    /\ LET lab == TransitPhase([tau |-> tau, parent |-> parent, updated |-> {}],
                               query, round)
       IN  IF MarkedStops(tau, round) = {}
           THEN /\ raptor_pc' = "collect"
                /\ UNCHANGED <<tau, parent, updated_left>>
           ELSE /\ tau' = lab.tau
                /\ parent' = lab.parent
                /\ updated_left' = lab.updated
                /\ raptor_pc' = "transfer"
    /\ UNCHANGED <<query, round, candidates, temp_results, routes, response>>

\* One stop of the transfer phase; the set is visited in whatever order its
\* iterator yields.
TransferStep ==
    /\ UNCHANGED not_raptor_vars
    /\ raptor_pc = "transfer"
    /\ \E stop_id \in updated_left :
          LET lab == TransferFrom([tau |-> tau, parent |-> parent, updated |-> {}],
                                  query, stop_id, round)
          IN  /\ tau' = lab.tau
              /\ parent' = lab.parent
              /\ updated_left' = updated_left \ {stop_id}
    /\ UNCHANGED <<query, round, candidates, temp_results, routes, response, raptor_pc>>

\* End of round k: the next round, or out of the loop after the last.
RoundEnd ==
    /\ UNCHANGED not_raptor_vars
    /\ raptor_pc = "transfer"
    /\ updated_left = {}
    /\ IF round = MAX_TRANSFERS + 1
       THEN raptor_pc' = "collect" /\ UNCHANGED round
       ELSE raptor_pc' = "round" /\ round' = round + 1
    /\ UNCHANGED <<query, tau, parent, updated_left, candidates, temp_results,
                   routes, response>>

\* dest_stop_ids, a set.
DestStopIds(q) ==
    {FindNearbyStops(q, q.destination)[i].stop_id :
        i \in 1..Len(FindNearbyStops(q, q.destination))}

\* Candidate collection, in whatever order dest_stop_ids is iterated, and
\* the sort.
Collect ==
    /\ UNCHANGED not_raptor_vars
    /\ raptor_pc = "collect"
    /\ \E order \in Orders(DestStopIds(query)) :
          candidates' = SortByArrival(CollectCandidates(tau, query, order))
    /\ raptor_pc' = "reconstruct"
    /\ UNCHANGED <<query, tau, parent, round, updated_left, temp_results, routes, response>>

\* One candidate: legs, final walk, merge, the two rejections.
ReconstructCandidate ==
    /\ UNCHANGED not_raptor_vars
    /\ raptor_pc = "reconstruct"
    /\ candidates /= <<>>
    /\ temp_results' = temp_results \o ReconstructOne(parent, query, Head(candidates))
    /\ candidates' = Tail(candidates)
    /\ UNCHANGED <<query, tau, parent, round, updated_left, routes, response, raptor_pc>>

\* What run returns.
RunReturn ==
    /\ UNCHANGED not_raptor_vars
    /\ raptor_pc = "reconstruct"
    /\ candidates = <<>>
    /\ routes' = FinalResults(temp_results)
    /\ raptor_pc' = "returned"
    /\ UNCHANGED <<query, tau, parent, round, updated_left, candidates, temp_results,
                   response>>

\* navigate, after run: the routes of the response.
Navigate ==
    /\ UNCHANGED not_raptor_vars
    /\ raptor_pc = "returned"
    /\ response' = FormatRoutes(query, routes)
    /\ raptor_pc' = "responded"
    /\ UNCHANGED <<query, tau, parent, round, updated_left, candidates, temp_results,
                   routes>>

RaptorNext ==
    \/ RunBegin
    \/ RoundTransit
    \/ TransferStep
    \/ RoundEnd
    \/ Collect
    \/ ReconstructCandidate
    \/ RunReturn
    \/ Navigate

\* ---- the run that visits every set in table order ----

RECURSIVE TransferInOrder(_, _, _, _)
TransferInOrder(lab, q, order, k) ==
    IF order = <<>> THEN lab
    ELSE TransferInOrder(TransferFrom(lab, q, Head(order), k), q, Tail(order), k)

RECURSIVE RoundsInOrder(_, _, _)
RoundsInOrder(lab, q, k) ==
    IF k > MAX_TRANSFERS + 1 \/ MarkedStops(lab.tau, k) = {} THEN lab
    ELSE LET ridden == TransitPhase(lab, q, k)
         IN  RoundsInOrder(TransferInOrder(ridden, q, TableOrder(ridden.updated), k),
                           q, k + 1)

RECURSIVE ReconstructAll(_, _, _)
ReconstructAll(p, q, cs) ==
    IF cs = <<>> THEN <<>>
    ELSE ReconstructOne(p, q, Head(cs)) \o ReconstructAll(p, q, Tail(cs))

RunInTableOrder(q) ==
    LET origin_stops == FindNearbyStops(q, q.origin)
        lab == RoundsInOrder(
                   InitOriginWalks([tau |-> EmptyTau, parent |-> EmptyParent,
                                    updated |-> {}], q, origin_stops),
                   q, 1)
        cs == SortByArrival(CollectCandidates(lab.tau, q, TableOrder(DestStopIds(q))))
    IN  IF origin_stops = <<>> \/ DestStopIds(q) = {} THEN <<>>
        ELSE FinalResults(ReconstructAll(lab.parent, q, cs))

(***************************************************************************)
(* Timetable loaded at boot: timetables.py                                 *)
(*                                                                         *)
(* A table is the set of its rows.  A date is a day number, the boot       *)
(* happens on day Today; service ids and trip ids are strings.             *)
(***************************************************************************)
\* A row of stop_times / realistic_stop_times.
TableRow(trip, seq, stop, t) ==
    [trip_id |-> trip, stop_sequence |-> seq, stop_id |-> stop,
     arrival_time |-> t, departure_time |-> t]

\* The trips table: trip_id -> service_id (nullable).
TripsTable == [X1 |-> "SV1", X2 |-> "SV2", X3 |-> NoneVal]

\* The scheduled stop times the feed may hold.
ScheduledTables ==
    { {TableRow("X1", 1, "A", <<10, 0, 0>>), TableRow("X1", 2, "C", <<10, 10, 0>>),
       TableRow("X2", 1, "A", <<11, 0, 0>>), TableRow("X2", 2, "B", <<11, 5, 0>>),
       TableRow("X3", 1, "B", <<12, 0, 0>>)},
      {TableRow("X2", 1, "A", <<11, 0, 0>>), TableRow("X2", 2, "B", <<11, 5, 0>>)} }

\* The realistic table next to a scheduled one: empty, the same rows, or
\* the rows with the times the synthesiser gave them.
RealisticTables(sched) ==
    { {},
      sched,
      {TableRow(r.trip_id, r.stop_sequence, r.stop_id,
                <<r.arrival_time[1], r.arrival_time[2] + r.stop_sequence, 15>>) : r \in sched} }

\* Day of the boot.
Today == 2

\* Rows calendar_dates may hold: (service_id, date) is its primary key.
CalendarRows ==
    { [service_id |-> "SV1", date |-> Today, exception_type |-> "1"],
      [service_id |-> "SV1", date |-> Today - 1, exception_type |-> "1"],
      [service_id |-> "SV2", date |-> Today, exception_type |-> "2"],
      [service_id |-> "SV2", date |-> Today - 1, exception_type |-> "1"] }

\* Wall-clock times of the boot.
BootTimes == {<<3, 59>>, <<4, 19>>, <<4, 20>>, <<12, 0>>}

\* Lines 66-72: yesterday's date before 04:20.
ServiceDate(now) ==
    IF now[1] < 4 \/ (now[1] = 4 /\ now[2] < 20) THEN Today - 1 ELSE Today

\* Lines 74-79: the rows of a stop-times table whose trip has a service with
\* an added-service row (exception_type "1") on the service date.
RowsInService(table, calendar, date) ==
    {r \in table :
        /\ r.trip_id \in DOMAIN TripsTable
        /\ \E c \in calendar :
              /\ c.service_id = TripsTable[r.trip_id]
              /\ c.date = date
              /\ c.exception_type = "1"}

\* Lines 80-89: the rows in stop_sequence order under their trip_id.
StopTimesOfTrip(rows, trip) ==
    LET mine == {r \in rows : r.trip_id = trip}
    IN  CHOOSE s \in [1..Cardinality(mine) -> mine] :
            /\ \A i, j \in 1..Cardinality(mine) :
                  i < j => s[i].stop_sequence < s[j].stop_sequence

ByTrip(rows) ==
    [trip \in {r.trip_id : r \in rows} |-> StopTimesOfTrip(rows, trip)]

BootInit ==
    /\ stop_times_table \in ScheduledTables
    /\ realistic_table \in RealisticTables(stop_times_table)
    /\ calendar_dates \in SUBSET CalendarRows
    /\ boot_now \in BootTimes
    /\ stop_times_by_trip = <<>>
    /\ boot_pc = "boot"

BootIdle ==
    /\ stop_times_table = {}
    /\ realistic_table = {}
    /\ calendar_dates = {}
    /\ boot_now = <<0, 0>>
    /\ stop_times_by_trip = <<>>
    /\ boot_pc = "idle"

\* Timetables._load_stop_times: the query reads realistic_stop_times only.
LoadStopTimes ==
    /\ UNCHANGED not_boot_vars
    /\ boot_pc = "boot"
    /\ stop_times_by_trip' =
           ByTrip(RowsInService(realistic_table, calendar_dates, ServiceDate(boot_now)))
    /\ boot_pc' = "loaded"
    /\ UNCHANGED <<stop_times_table, realistic_table, calendar_dates, boot_now>>

BootNext == LoadStopTimes

(***************************************************************************)
(* Delay of a recorded arrival (services/arrival_logger.py).  Instants are *)
(* tenths of a second of wall-clock time in the zone TZ, counted from the  *)
(* midnight that starts the day before `now`.                              *)
(***************************************************************************)
\* timedelta(days=1), in tenths of a second
OneDay == 86400 * 10

\* Scheduled times the stop_times file may hold; hours run past 23.
ParseHours == {0, 11, 12, 23, 24, 25, 47}
ParseMinutes == {0, 50}
ParseSeconds == {0, 1}
ParseTimeStrs ==
    {EmptyStr} \cup {<<h, m, sec>> : h \in ParseHours, m \in ParseMinutes, sec \in ParseSeconds}

\* Instants of the tick: the time of day of `now`, on the second day.
ParseNows ==
    {OneDay + d : d \in {0, 6000, 6005, 431995, 432000, 432005, 438000, 863995}}

\* now.date(), as a day number.
DateOf(now) == now \div OneDay

\* datetime.combine(today, dtime.min).replace(tzinfo=TZ) (line 157)
CombineMidnight(today) == today * OneDay

\* now.replace(hour=0, minute=0, second=0, microsecond=0) (line 159)
ReplaceMidnight(now) == now - (now % OneDay)

\* abs((dt - now).total_seconds())
AbsDiff(a, b) == IF a >= b THEN a - b ELSE b - a

\* min(candidates, key=...): the first of the closest.
RECURSIVE MinByKey(_, _, _)
MinByKey(best, rest, now) ==
    IF rest = <<>> THEN best
    ELSE IF AbsDiff(Head(rest), now) < AbsDiff(best, now)
         THEN MinByKey(Head(rest), Tail(rest), now)
    ELSE MinByKey(best, Tail(rest), now)

\* Variant with the candidate of the anchor day only.
CandidatesAnchorOnly(candidate_dt) == << candidate_dt >>

\* Lines 165-169: yesterday, today, tomorrow.
Candidates(candidate_dt) ==
    << candidate_dt - OneDay, candidate_dt, candidate_dt + OneDay >>

\* Lines 161-162: divmod(h, 24) and the candidate instant.
CandidateDt(base, time_str) ==
    LET extra_days == time_str[1] \div 24
        hours_mod == time_str[1] % 24
    IN  base + extra_days * OneDay
             + (hours_mod * 3600 + time_str[2] * 60 + time_str[3]) * 10

\* _parse_gtfs_time(time_str, trip_id, now): <<>> for None.
ParseGtfsTime(time_str, in_service, now) ==
    IF time_str = EmptyStr THEN <<>>
    ELSE LET today == DateOf(now)
             base == IF in_service THEN CombineMidnight(today) ELSE ReplaceMidnight(now)
             cs == Candidates(CandidateDt(base, time_str))
         IN  << MinByKey(Head(cs), Tail(cs), now) >>

\* int(x) of a number of seconds given in tenths: truncation toward zero.
IntSeconds(x) == IF x >= 0 THEN x \div 10 ELSE -((-x) \div 10)

ParseInit ==
    /\ parse_args \in [time_str : ParseTimeStrs, in_service : BOOLEAN, now : ParseNows]
    /\ scheduled_dt = <<>>
    /\ delay_sec = <<>>
    /\ parse_pc = "called"

ParseIdle ==
    /\ parse_args = [time_str |-> EmptyStr, in_service |-> FALSE, now |-> 0]
    /\ scheduled_dt = <<>>
    /\ delay_sec = <<>>
    /\ parse_pc = "idle"

\* Line 289: scheduled_dt = self._parse_gtfs_time(...)
ParseScheduled ==
    /\ UNCHANGED not_parse_vars
    /\ parse_pc = "called"
    /\ scheduled_dt' = ParseGtfsTime(parse_args.time_str, parse_args.in_service,
                                     parse_args.now)
    /\ parse_pc' = "parsed"
    /\ UNCHANGED <<parse_args, delay_sec>>

\* Lines 291-293: delay_sec = int((now - scheduled_dt).total_seconds())
ComputeDelay ==
    /\ UNCHANGED not_parse_vars
    /\ parse_pc = "parsed"
    /\ delay_sec' = IF scheduled_dt = <<>> THEN <<>>
                    ELSE << IntSeconds(parse_args.now - scheduled_dt[1]) >>
    /\ parse_pc' = "logged"
    /\ UNCHANGED <<parse_args, scheduled_dt>>

ParseNext == ParseScheduled \/ ComputeDelay

\* A synthesiser run; the observer at rest.
InitSynthRun == SynthInit /\ ObsInit /\ RaptorIdle /\ DelayIdle /\ BootIdle /\ ParseIdle

SpecSynth == InitSynthRun /\ [][SynthNext]_vars

\* The observer running; no synthesiser run.
InitObserverRun == SynthIdle /\ ObsInit /\ RaptorIdle /\ DelayIdle /\ BootIdle /\ ParseIdle

SpecObserver == InitObserverRun /\ [][ObsNext]_vars

\* The observer from start to shutdown, under the scheduling of the event
\* loop.
InitPollLoopRun == SynthIdle /\ PollLoopInit /\ RaptorIdle /\ DelayIdle /\ BootIdle /\ ParseIdle

SpecPollLoop == InitPollLoopRun /\ [][PollLoopNext]_vars /\ PollLoopFairness

\* A navigation request; no synthesiser run, the observer at rest.
InitRaptorRun == SynthIdle /\ ObsInit /\ RaptorInit /\ DelayIdle /\ BootIdle /\ ParseIdle

SpecRaptor == InitRaptorRun /\ [][RaptorNext]_vars

\* The delay statistics of one pair; everything else at rest.
InitDelayRun == SynthIdle /\ ObsInit /\ RaptorIdle /\ DelayInit /\ BootIdle /\ ParseIdle

SpecDelays == InitDelayRun /\ [][DelayNext]_vars

\* The boot of the timetable; everything else at rest.
InitBootRun ==
    SynthIdle /\ ObsInit /\ RaptorIdle /\ DelayIdle /\ BootInit /\ ParseIdle

SpecBoot == InitBootRun /\ [][BootNext]_vars

\* The delay of one arrival; everything else at rest.
InitArrivalDelayRun ==
    SynthIdle /\ ObsInit /\ RaptorIdle /\ DelayIdle /\ BootIdle /\ ParseInit

SpecArrivalDelay == InitArrivalDelayRun /\ [][ParseNext]_vars

(***************************************************************************)
(* Synthesiser claims                                                      *)
(***************************************************************************)
HasTime(r) == r.arrival_time /= EmptyStr

\* C1: after a run of the synthesiser, within every trip the realistic times
\* of the rows that carry a time, taken in increasing stop_sequence order,
\* are strictly increasing (hence non-decreasing), whatever the scheduled
\* times and the representative delays, negative and clamped ones included.
C1_RealisticTimesIncrease ==
    synth_pc = "done" =>
        \A i, j \in 1..Len(realistic_out) :
            LET a == realistic_out[i]
                b == realistic_out[j]
            IN  ( /\ a.trip_id = b.trip_id
                  /\ a.trip_id /= ""
                  /\ a.stop_sequence < b.stop_sequence
                  /\ HasTime(a) /\ HasTime(b) )
                => /\ ParseTime(a.arrival_time) < ParseTime(b.arrival_time)
                   /\ ParseTime(a.departure_time) < ParseTime(b.departure_time)

\* A finished run in which a later stop's candidate time (scheduled + delay)
\* was not after an earlier stop's realistic time, and some candidate of the
\* same trip was negative and clamped to 0.
C1_Witness ==
    /\ synth_pc = "done"
    /\ \E i, j, c \in 1..Len(realistic_out) :
         LET a == static_stop_times[i]
             b == static_stop_times[j]
             k == static_stop_times[c]
         IN  /\ a.trip_id = b.trip_id /\ a.trip_id /= "" /\ k.trip_id = a.trip_id
             /\ a.stop_sequence < b.stop_sequence
             /\ HasTime(a) /\ HasTime(b) /\ HasTime(k)
             /\ ParseTime(b.arrival_time)
                  + CalculateAverageDelay(delay_stats, b.trip_id, b.stop_id)
                <= ParseTime(realistic_out[i].arrival_time)
             /\ ParseTime(k.arrival_time)
                  + CalculateAverageDelay(delay_stats, k.trip_id, k.stop_id) < 0

\* C2: the synthesiser neither drops, duplicates nor adds rows: the written
\* table has the (trip, stop-sequence, stop) keys of the scheduled table, in
\* the same row order, so each key has one realistic row iff it has one
\* scheduled row; rows with an empty arrival_time or an empty trip_id included.
C2_RowsPreserved ==
    synth_pc = "done" =>
        /\ RowKeys(realistic_out) = RowKeys(static_stop_times)
        /\ \A i \in 1..Len(realistic_out) :
               realistic_out[i].stop_id = static_stop_times[i].stop_id
        /\ \A k \in Range(RowKeys(static_stop_times)) \cup Range(RowKeys(realistic_out)) :
               Cardinality({i \in 1..Len(realistic_out) : RowKeys(realistic_out)[i] = k}) = 1
               <=> Cardinality({i \in 1..Len(static_stop_times) :
                                    RowKeys(static_stop_times)[i] = k}) = 1

\* A finished run over a table holding a row with an empty trip_id, a row
\* with an empty arrival_time, and a row whose time was changed.
C2_Witness ==
    /\ synth_pc = "done"
    /\ \E i, j, c \in 1..Len(static_stop_times) :
         /\ static_stop_times[i].trip_id = ""
         /\ static_stop_times[j].trip_id /= "" /\ ~HasTime(static_stop_times[j])
         /\ realistic_out[c].arrival_time /= static_stop_times[c].arrival_time

(***************************************************************************)
(* Observer claims                                                         *)
(***************************************************************************)
\* Number of log rows of one (trip, stop).
LogCount(log, t, st) ==
    Cardinality({i \in 1..Len(log) : log[i].trip_id = t /\ log[i].stop_id = st})

LoggedAtMostOnce(log) ==
    \A i, j \in 1..Len(log) :
        (log[i].trip_id = log[j].trip_id /\ log[i].stop_id = log[j].stop_id) => i = j

\* C3: under any sequence of polling ticks and get_latest_arrival calls, every
\* step leaves each trip's observed-stop set at least as large as it was, and
\* the log holds at most one row per (trip, stop).
C3_LoggedOnceSetsGrow ==
    [][ /\ \A t \in DOMAIN vehicle_arrivals :
              /\ t \in DOMAIN vehicle_arrivals'
              /\ vehicle_arrivals[t] \subseteq vehicle_arrivals'[t]
        /\ LoggedAtMostOnce(arrival_log') ]_vars

\* A get_latest_arrival step on a trip that has a cache entry.
ReadOfEntry(t) ==
    /\ reader_ret' /= reader_ret
    /\ reader_ret'.trip_id = t
    /\ t \in DOMAIN vehicle_latest_arrival

\* C4 as stated: a call finds the entry present iff its age is strictly below
\* 60 s; otherwise it reports it absent and evicts it.
C4_PresentIffYoungerThanTtl ==
    [][ \A t \in ObsTrips :
          ReadOfEntry(t) =>
            LET age == clock - vehicle_latest_arrival[t].last_seen
            IN  /\ (reader_ret'.value /= NoEntry) <=> (age < CACHE_TTL_SECONDS * 10)
                /\ (reader_ret'.value = NoEntry) <=> (t \notin DOMAIN vehicle_latest_arrival')
      ]_vars

\* C4 amended: a call finds the entry present iff its age is at most 60 s: at
\* 60.0 s it is still returned (without last_seen); at any greater age it is
\* reported absent and evicted.
C4_PresentIffNotOlderThanTtl ==
    [][ \A t \in ObsTrips :
          ReadOfEntry(t) =>
            LET age == clock - vehicle_latest_arrival[t].last_seen
            IN  /\ (reader_ret'.value /= NoEntry) <=> (age <= CACHE_TTL_SECONDS * 10)
                /\ (reader_ret'.value /= NoEntry) =>
                       reader_ret'.value = PublicEntry(vehicle_latest_arrival[t])
                /\ (reader_ret'.value = NoEntry) <=> (t \notin DOMAIN vehicle_latest_arrival')
      ]_vars

\* A call that read an entry aged exactly 60.0 s and returned it.
C4_Witness ==
    /\ reader_ret.had_entry
    /\ reader_ret.age = CACHE_TTL_SECONDS * 10
    /\ reader_ret.value /= NoEntry
    /\ reader_ret.trip_id \in DOMAIN vehicle_latest_arrival

\* ---- navigation claims ----

\* run has returned (and navigate may have formatted the result).
Returned == raptor_pc \in {"returned", "responded"}

\* C5: every itinerary run returns has a total_time between 0 and the
\* search window of 14 400 s, whatever the timetable, origin, destination
\* and departure second.
C5_TotalTimeWithinWindow ==
    Returned =>
        \A i \in 1..Len(routes) :
            /\ 0 <= routes[i].total_time
            /\ routes[i].total_time <= SEARCH_WINDOW_HOURS * 3600

\* A run returned an itinerary although its timetable holds the late trip
\* whose candidate overshoots the window by its final walk.
C5_Witness ==
    /\ raptor_pc = "returned"
    /\ routes /= <<>>
    /\ "t5" \in query.trips
    /\ query.departure = <<10, 0, 0>>
    /\ query.destination = 1112

\* Real-life ids of the transit legs of a formatted route, in order.
ExternalIdsOf(route) ==
    LET transit_legs == TransitLegs(route.legs)
    IN  [i \in 1..Len(transit_legs) |-> transit_legs[i].route_id]

\* C6: no route of a response has two consecutive transit legs (walks
\* between them or not) with the same real-life route id, whatever the
\* routes table maps the timetable's route ids to.
C6_NoRepeatedExternalRoute ==
    raptor_pc = "responded" =>
        \A r \in 1..Len(response) :
            \A i \in 1..(Len(ExternalIdsOf(response[r])) - 1) :
                ~ /\ ExternalIdsOf(response[r])[i] /= NoneId
                  /\ ExternalIdsOf(response[r])[i] = ExternalIdsOf(response[r])[i + 1]

\* C7: in every returned itinerary the first leg is a walk from the origin
\* coordinate, the last leg is a walk to the destination coordinate, and no
\* two adjacent legs are both walks.
C7_WalkFirstWalkLastNoAdjacentWalks ==
    Returned =>
        \A r \in 1..Len(routes) :
            LET legs == routes[r].legs
            IN  /\ legs /= <<>>
                /\ legs[1].type = "walk"
                /\ legs[1].from = CoordPoint(query.origin)
                /\ legs[Len(legs)].type = "walk"
                /\ legs[Len(legs)].to = CoordPoint(query.destination)
                /\ \A i \in 1..(Len(legs) - 1) :
                      ~(legs[i].type = "walk" /\ legs[i + 1].type = "walk")

\* A returned itinerary whose last walk was merged from a transfer walk
\* and the final walk: it leaves from a stop other than the destination
\* stop, after a transit leg.
C7_Witness ==
    /\ raptor_pc = "returned"
    /\ \E r \in 1..Len(routes) :
          LET legs == routes[r].legs
          IN  /\ Len(legs) >= 3
              /\ legs[Len(legs) - 1].type = "transit"
              /\ legs[Len(legs)].from /= StopPoint(routes[r].dest_stop)

\* C8: the route list run returns is a function of the request and the
\* static data: whatever order the sets are iterated in, it is the list
\* the run in table order returns.
C8_SameResultInAnyOrder ==
    raptor_pc = "returned" => routes = RunInTableOrder(query)

\* Scenario 1: stops A (at the origin), B and C (at the destination), one
\* trip A -> C, 10:00:00 -> 10:10:00.
Scenario1 ==
    /\ query.stops = {"A", "B", "C"}
    /\ query.trips = {"t1"}
    /\ query.origin = StopPos["A"]
    /\ query.destination = StopPos["C"]

\* The response holds exactly one route, with the single transit leg
\* A -> C.
OneDirectRoute ==
    /\ Len(response) = 1
    /\ Len(TransitLegs(response[1].legs)) = 1
    /\ TransitLegs(response[1].legs)[1].from_stop_id = "A"
    /\ TransitLegs(response[1].legs)[1].to_stop_id = "C"

\* C9 as stated: in scenario 1 a query departing at 10:00:00 returns
\* exactly one route, with one transit leg A -> C and no transfer.
C9_Scenario1DepartingAtTen ==
    (raptor_pc = "responded" /\ Scenario1 /\ query.departure = <<10, 0, 0>>)
        => OneDirectRoute

\* C9: in scenario 1 a query returns exactly one route, with one transit
\* leg A -> C and no transfer, when it departs 180 s or more before the
\* trip leaves A and at most 4 h before the trip reaches C, and no route
\* otherwise, as at 10:00:00.
C9_Scenario1NeedsBuffer ==
    (raptor_pc = "responded" /\ Scenario1) =>
        IF /\ TimeToSeconds(query.departure) + TRANSFER_TIME <= TimeToSeconds(<<10, 0, 0>>)
           /\ TimeToSeconds(<<10, 10, 0>>)
                  <= TimeToSeconds(query.departure) + SEARCH_WINDOW_HOURS * 3600
        THEN OneDirectRoute
        ELSE response = <<>>

\* Scenario 1 queried at 10:00:00 and answered, after the boarding scan
\* looked at the trip.
C9_Witness ==
    /\ raptor_pc = "responded"
    /\ Scenario1
    /\ query.departure = <<10, 0, 0>>
    /\ round = 2
    /\ response = <<>>

\* Scenario 2: trip R1 A -> B 10:00 -> 10:05, trip R2 B -> C 10:10 -> 10:20,
\* the origin a 60 s walk from A, the destination at C.
Scenario2 ==
    /\ query.stops = {"A", "B", "C"}
    /\ query.trips = {"t2", "t3"}
    /\ query.origin = -84
    /\ query.destination = StopPos["C"]

\* The response holds one route of the given total time that rides R1 from
\* A to B and then R2 from B to C, and C was labelled in round 2 only.
RidesR1ThenR2(total) ==
    /\ Len(response) = 1
    /\ response[1].total_time_seconds = total
    /\ Len(TransitLegs(response[1].legs)) = 2
    /\ TransitLegs(routes[1].legs)[1].route_id = "R1"
    /\ TransitLegs(routes[1].legs)[1].to_stop_id = "B"
    /\ TransitLegs(routes[1].legs)[2].route_id = "R2"
    /\ TransitLegs(routes[1].legs)[2].from_stop_id = "B"
    /\ TransitLegs(routes[1].legs)[2].to_stop_id = "C"
    /\ TauAt(tau, "C", 1) = Inf
    /\ TauAt(tau, "C", 2) = TimeToSeconds(<<10, 20, 0>>)

\* C10 as stated: in scenario 2 a query departing at 09:58 returns an
\* itinerary found in round 2 that rides R1 then R2 with one transfer at B
\* and takes 22 min 00 s.
C10_Scenario2DepartingAt0958 ==
    (raptor_pc = "responded" /\ Scenario2 /\ query.departure = <<9, 58, 0>>)
        => RidesR1ThenR2(22 * 60)

\* C10: in scenario 2 a query departing at 09:58 returns no itinerary; one
\* that reaches A 180 s or more before R1 leaves and departs at most 4 h
\* before R2 reaches C, as at 09:56, returns the
\* itinerary found in round 2 that rides R1 then R2 with one transfer at
\* B, and its total time runs from the departure to 10:20:00 (24 min 00 s
\* from 09:56).
C10_Scenario2NeedsBuffer ==
    (raptor_pc = "responded" /\ Scenario2) =>
        IF /\ TimeToSeconds(query.departure) + 60 + TRANSFER_TIME
                  <= TimeToSeconds(<<10, 0, 0>>)
           /\ TimeToSeconds(<<10, 20, 0>>)
                  <= TimeToSeconds(query.departure) + SEARCH_WINDOW_HOURS * 3600
        THEN RidesR1ThenR2(TimeToSeconds(<<10, 20, 0>>) - TimeToSeconds(query.departure))
        ELSE response = <<>>

\* Scenario 2 queried at 09:56 and answered with the 24 min itinerary.
C10_Witness ==
    /\ raptor_pc = "responded"
    /\ Scenario2
    /\ query.departure = <<9, 56, 0>>
    /\ RidesR1ThenR2(24 * 60)

\* Past-midnight scenario: stops A, B, C, one trip whose first stop-time is
\* 25:30:00 at A and which reaches C at 25:40:00, queried at 00:15:00 from
\* A to C.
PastMidnightScenario ==
    /\ query.stops = {"A", "B", "C"}
    /\ query.trips = {"t8"}
    /\ query.origin = StopPos["A"]
    /\ query.destination = StopPos["C"]
    /\ query.departure = <<0, 15, 0>>

\* C11: a trip whose first stop-time is 25:30:00 is resolved, for a query
\* at 00:15:00, as leaving 1 h 15 min after the query: it is boarded and
\* its stops are reached within the 4 h window, so the response rides it
\* to C, 1 h 25 min after the query.
C11_PastMidnightTripRoutable ==
    (raptor_pc = "responded" /\ PastMidnightScenario) =>
        /\ Len(response) = 1
        /\ Len(TransitLegs(response[1].legs)) = 1
        /\ TransitLegs(response[1].legs)[1].trip_id = "t8"
        /\ response[1].total_time_seconds
              = TimeToSeconds(<<1, 40, 0>>) - TimeToSeconds(<<0, 15, 0>>)

\* The stops the transfer list g[u] leads to.
NeighboursIn(g, u) == {g[u][i].stop_id : i \in 1..Len(g[u])}

\* (v, w) is an entry of the transfer list of u.
HasTransfer(u, v, w) ==
    \E i \in 1..Len(Transfers(query, u)) :
        Transfers(query, u)[i] = [stop_id |-> v, walk_seconds |-> w]

\* C12: the transfer graph is symmetric, an edge (u, v) of duration w
\* exists iff the edge (v, u) of duration w exists, and two stops are
\* joined exactly when they are distinct, their coordinates differ by at
\* most 0.01 degree (1112 m on this street) and they are at most 500 m
\* apart.
C12_TransferGraphSymmetric ==
    raptor_pc /= "idle" =>
        LET g == BuildTransferGraph(query)
        IN  \A u \in query.stops :
              /\ \A i \in 1..Len(g[u]) :
                    \E j \in 1..Len(g[g[u][i].stop_id]) :
                        g[g[u][i].stop_id][j] =
                            [stop_id |-> u, walk_seconds |-> g[u][i].walk_seconds]
              /\ \A v \in query.stops :
                    v \in NeighboursIn(g, u)
                        <=> /\ u /= v
                            /\ Haversine(StopPos[u], StopPos[v]) <= 1112
                            /\ Haversine(StopPos[u], StopPos[v]) <= MAX_WALKING_DISTANCE_M

\* A transfer phase walked the edge from C to D, whose reverse is the
\* edge D to C of the same 277 s, while C and E, 788 m apart, are not
\* joined.
C12_Witness ==
    /\ raptor_pc = "transfer"
    /\ \E k \in 1..(MAX_TRANSFERS + 1) :
          /\ ParentAt(parent, "D", k).type = "transfer"
          /\ ParentAt(parent, "D", k).from_stop_id = "C"
    /\ HasTransfer("C", "D", 277)
    /\ HasTransfer("D", "C", 277)
    /\ "E" \notin NeighboursIn(BuildTransferGraph(query), "C")

\* ---- delay statistics claims ----

\* C13: the outlier filter is idempotent: filtering the samples that
\* survived the filter returns those same samples.
C13_FilterIdempotent ==
    delay_pc \in {"reparsed", "done"} => stats_twice = stats_once

\* The sample at index k (from 0) of the sorted samples: fewer than k + 1
\* samples are below it, at least k + 1 are not above it.
SortedAt(samples, k) ==
    CHOOSE v \in Range(samples) :
        /\ Cardinality({i \in 1..Len(samples) : samples[i] < v}) <= k
        /\ Cardinality({i \in 1..Len(samples) : samples[i] <= v}) > k

\* C14: of a group of n >= 4 samples exactly the samples d with
\* Q1 - 3*IQR <= d <= Q3 + 3*IQR survive, Q1 and Q3 being the sorted
\* samples at indices floor(n/4) and floor(3n/4) and IQR = Q3 - Q1; a
\* group of fewer than 4 samples is retained whole.
C14_SurvivorsWithinIqrBounds ==
    delay_pc \notin {"idle", "start"} =>
        LET n == Len(sample_group)
            Q1 == SortedAt(sample_group, n \div 4)
            Q3 == SortedAt(sample_group, (3 * n) \div 4)
        IN  IF n >= 4
            THEN GroupIn(stats_once) =
                     SelectSeq(sample_group,
                         LAMBDA d : /\ Q1 - 3 * (Q3 - Q1) <= d
                                    /\ d <= Q3 + 3 * (Q3 - Q1))
            ELSE GroupIn(stats_once) = sample_group

\* A group of exactly 4 samples was filtered and lost a sample.
C14_Witness ==
    /\ delay_pc = "parsed"
    /\ Len(sample_group) = 4
    /\ Len(GroupIn(stats_once)) = 3

\* The integer median of a non-empty list: its middle sorted sample, or
\* half the sum of its two middle sorted samples with the fraction cut
\* off toward zero.
IntegerMedian(g) ==
    LET m == Len(g)
        sum == SortedAt(g, m \div 2 - 1) + SortedAt(g, m \div 2)
    IN  IF m % 2 = 1 THEN SortedAt(g, (m - 1) \div 2)
        ELSE IF sum >= 0 THEN sum \div 2 ELSE -((-sum) \div 2)

\* C15: the representative delay of a pair is the integer median of the
\* samples that survive the filter, and 0 when the pair has no samples;
\* for the samples [-30, 0, 60, 90, 120, 180, 3600] the 3600 is dropped,
\* the delay is 75 and a nominal 12:00:00 becomes 12:01:15.
C15_RepresentativeDelayIsIntegerMedian ==
    delay_pc = "done" =>
        /\ IF GroupIn(stats_once) = <<>> THEN rep_delay = 0
           ELSE rep_delay = IntegerMedian(GroupIn(stats_once))
        /\ sample_group = <<>> => rep_delay = 0
        /\ sample_group = <<-30, 0, 60, 90, 120, 180, 3600>> =>
              /\ GroupIn(stats_once) = <<-30, 0, 60, 90, 120, 180>>
              /\ rep_delay = 75
              /\ noon_adjusted = <<12, 1, 15>>

\* The delay of the seven samples of the example has been computed.
C15_Witness ==
    /\ delay_pc = "done"
    /\ sample_group = <<-30, 0, 60, 90, 120, 180, 3600>>
    /\ rep_delay = 75

\* ---- realistic time of each stop ----

\* max(0, scheduled + representative delay) of static row i
CandidateTime(i) ==
    LET row == static_stop_times[i]
        c == ParseTime(row.arrival_time)
             + CalculateAverageDelay(delay_stats, row.trip_id, row.stop_id)
    IN  IF c < 0 THEN 0 ELSE c

\* The timed row of the same trip that precedes row i in stop-sequence
\* order, 0 when row i is the trip's first timed row.
PreviousStop(i) ==
    LET before == {j \in 1..Len(static_stop_times) :
                      /\ static_stop_times[j].trip_id = static_stop_times[i].trip_id
                      /\ HasTime(static_stop_times[j])
                      /\ static_stop_times[j].stop_sequence
                            < static_stop_times[i].stop_sequence}
    IN  IF before = {} THEN 0
        ELSE CHOOSE j \in before :
                 \A k \in before :
                     static_stop_times[k].stop_sequence <= static_stop_times[j].stop_sequence

\* The time the rule of the claim gives row i.
RECURSIVE RuleTime(_)
RuleTime(i) ==
    IF PreviousStop(i) = 0 THEN CandidateTime(i)
    ELSE IF CandidateTime(i) <= RuleTime(PreviousStop(i))
         THEN RuleTime(PreviousStop(i)) + 60
    ELSE CandidateTime(i)

\* The trip of the example: scheduled 10:00, 10:01, 10:02, delays 0, +120
\* and -60, and what the loop over its stops makes of it.
ExampleTrip ==
    [i \in 1..3 |->
        [trip_id |-> "T1", stop_id |-> StopName(i), stop_sequence |-> i,
         arrival_time |-> <<10, i - 1, 0>>, departure_time |-> <<10, i - 1, 30>>]]

ExampleDelays ==
    [k \in {<<"T1", StopName(2)>>, <<"T1", StopName(3)>>} |->
        IF k[2] = StopName(2) THEN <<120>> ELSE <<-60>>]

ExampleRealistic ==
    ProcessStops(ExampleTrip, ExampleDelays, "T1", GroupTrips(ExampleTrip)["T1"], NoneTime)

\* C16: along a trip in stop-sequence order each stop's realistic time
\* is max(0, scheduled + representative delay), unless that is not after
\* the previous stop's realistic time, and then it is that time + 60 s,
\* corrections carrying on to later stops; arrival and departure of the
\* row both take it.  Scheduled 10:00, 10:01, 10:02 with delays 0, +120,
\* -60 gives 10:00, 10:03, 10:04.
C16_RealisticTimeRule ==
    synth_pc = "done" =>
        /\ \A i \in 1..Len(realistic_out) :
              (static_stop_times[i].trip_id /= "" /\ HasTime(static_stop_times[i])) =>
                  /\ ParseTime(realistic_out[i].arrival_time) = RuleTime(i)
                  /\ realistic_out[i].departure_time = realistic_out[i].arrival_time
        /\ [i \in 1..3 |-> ExampleRealistic[i].arrival_time]
              = << <<10, 0, 0>>, <<10, 3, 0>>, <<10, 4, 0>> >>
        /\ \A i \in 1..3 :
              ExampleRealistic[i].departure_time = ExampleRealistic[i].arrival_time

\* A finished run with a trip of three timed stops in which the second
\* was put 60 s after the first and the third 60 s after the second.
C16_Witness ==
    /\ synth_pc = "done"
    /\ \E i \in 1..Len(realistic_out) :
          LET j == PreviousStop(i)
          IN  /\ static_stop_times[i].trip_id /= ""
              /\ HasTime(static_stop_times[i])
              /\ j /= 0
              /\ PreviousStop(j) /= 0
              /\ ParseTime(realistic_out[j].arrival_time) /= CandidateTime(j)
              /\ ParseTime(realistic_out[i].arrival_time) /= CandidateTime(i)
              /\ ParseTime(realistic_out[i].arrival_time)
                    = ParseTime(realistic_out[PreviousStop(j)].arrival_time) + 120

\* ---- deduplication and pruning claims ----

\* Total walking time of an itinerary: the sum over its walk legs.
TotalWalk(legs) ==
    SumField(SelectSeq(legs, LAMBDA leg : leg.type = "walk"), FALSE)

\* C17: of the reconstructed itineraries that share a transit signature
\* one is returned, and it is one of least total walking time: no two
\* returned routes have the same signature, and no reconstructed
\* itinerary with the signature of a returned route walks less than it.
C17_LeastWalkingVariantReturned ==
    raptor_pc = "returned" =>
        /\ \A i, j \in 1..Len(routes) :
              i /= j => TransitSignature(routes[i].legs) /= TransitSignature(routes[j].legs)
        /\ \A i \in 1..Len(routes) : \A j \in 1..Len(temp_results) :
              TransitSignature(temp_results[j].legs) = TransitSignature(routes[i].legs)
                  => TotalWalk(routes[i].legs) <= TotalWalk(temp_results[j].legs)

\* The pruning rule read over a list of itineraries: those within 60 s of
\* the fastest of the list or with the least transit-leg count of the list.
WithinPruningRule(list) ==
    IF list = <<>> THEN <<>>
    ELSE LET fastest == MinOf({list[i].total_time : i \in 1..Len(list)})
             fewest == MinOf({list[i].transfer_count : i \in 1..Len(list)})
         IN  SelectSeq(list, LAMBDA r :
                 r.total_time <= fastest + 60 \/ r.transfer_count = fewest)

\* The itineraries of a list without their transfer_count, as a set.
CleanResults(list) ==
    {[dest_stop |-> list[i].dest_stop, total_time |-> list[i].total_time,
      legs |-> list[i].legs] : i \in 1..Len(list)}

SignatureSet(list) == {TransitSignature(list[i].legs) : i \in 1..Len(list)}

TickDue == poll_pc = "sleep" /\ clock >= wake_at

\* The loop sleeps until a later wake time.
TickAwaited == poll_pc = "sleep" /\ clock < wake_at

\* The body of a tick is running.
InTick == poll_pc \in {"scan", "record", "touch"}

\* C19: a failed poll tick (status other than 200, network error, decode
\* error) changes neither the observed-stop sets, nor the latest-arrival
\* cache, nor the arrivals log, and leaves the loop asleep; every tick
\* that has begun ends in the sleep of the loop, and a sleeping loop
\* executes another tick once its wake time has come, unless the task is
\* cancelled first (or the time horizon of the model is reached while it
\* waits).
C19_FailedTickSkippedLoopGoesOn ==
    /\ [][PollFetchFail =>
            /\ UNCHANGED <<vehicle_arrivals, vehicle_latest_arrival, arrival_log>>
            /\ poll_pc' = "sleep"]_vars
    /\ [](poll_pc \in {"sleep", "scan", "record", "touch", "cancelled"})
    /\ []<>(~InTick)
    /\ []<>(~TickAwaited \/ advances = MaxAdvances)
    /\ []<>(~TickDue)

\* The loop is asleep again after a failed tick that followed recorded
\* arrivals, with the cache and the log as they were.
C19_Witness ==
    /\ poll_pc = "sleep"
    /\ arrival_log /= <<>>
    /\ vehicle_latest_arrival /= <<>>
    /\ tick_now < clock
    /\ wake_at = clock + POLL_INTERVAL * 10

\* ---- timetable claims ----

\* C20: the in-memory timetable holds the realistic stop times of the
\* trips in service on the active service date, and the scheduled stop
\* times of those trips when the realistic table is empty.
C20_FallbackToScheduled ==
    boot_pc = "loaded" =>
        stop_times_by_trip =
            ByTrip(RowsInService(IF realistic_table = {} THEN stop_times_table
                                 ELSE realistic_table,
                                 calendar_dates, ServiceDate(boot_now)))

\* ---- proximity trigger claims ----

\* The vehicle of a pair is strictly closer than 30 m to the pair's stop.
StrictlyWithinThreshold(p) ==
    /\ p.stop_id \in DOMAIN stops
    /\ Distance(p.pos, stops[p.stop_id].pos) < DISTANCE_THRESHOLD_M * 10

\* The stop of a pair is already in the observed set of its trip.
AlreadyObserved(p) ==
    /\ p.trip_id \in DOMAIN vehicle_arrivals
    /\ p.stop_id \in vehicle_arrivals[p.trip_id]

\* The pairs a step of the scan leaves behind are the pair it hands to the
\* recording step, pairs at 30 m or more (or of a stop that stops.txt does
\* not hold), and pairs already observed.
ScanPassesOnlyFarOrObserved ==
    LET dropped == Len(work) - Len(work')
    IN  \A i \in 1..dropped :
            \/ poll_pc' = "record" /\ i = dropped /\ cur_pair' = work[i]
            \/ ~StrictlyWithinThreshold(work[i])
            \/ AlreadyObserved(work[i])

\* The recording step appends one row for the pair, adds the stop to the
\* trip's observed set and sets the trip's entry to that stop, seen at the
\* instant of the tick.
FullyRecorded ==
    /\ arrival_log' = Append(arrival_log,
                              [trip_id |-> cur_pair.trip_id, stop_id |-> cur_pair.stop_id,
                               timestamp |-> tick_now])
    /\ cur_pair.trip_id \in DOMAIN vehicle_arrivals'
    /\ cur_pair.stop_id \in vehicle_arrivals'[cur_pair.trip_id]
    /\ cur_pair.trip_id \in DOMAIN vehicle_latest_arrival'
    /\ vehicle_latest_arrival'[cur_pair.trip_id].stop_id = cur_pair.stop_id
    /\ vehicle_latest_arrival'[cur_pair.trip_id].last_seen = tick_now

C22_RecordingNeverMissesSet ==
    [][PollRecord =>
          /\ cur_pair.trip_id \in DOMAIN vehicle_arrivals
          /\ poll_pc' = "scan"
          /\ \A i \in (Len(arrival_log) + 1)..Len(arrival_log') :
                /\ arrival_log'[i].trip_id \in DOMAIN vehicle_arrivals'
                /\ arrival_log'[i].stop_id \in vehicle_arrivals'[arrival_log'[i].trip_id]
      ]_vars

\* ---- search claims ----

\* The stop times of a trip as run groups them.
SortedStops(t) == SortByDeparture(TripPool[t].stop_times)

\* The normalised departure of trip t at index i.
NormalisedDeparture(q, t, i) ==
    NormaliseTime(TimeToSeconds(SortedStops(t)[i].departure_time),
                  TimeToSeconds(SortedStops(t)[1].departure_time),
                  TimeToSeconds(q.departure))

\* The (trip, index) pairs of pattern v that can be boarded in round k: the
\* stop is marked and the departure leaves TRANSFER_TIME after its label.
BoardablePairs(q, labels, k, v) ==
    {pr \in UNION { {<<t, i>> : i \in 1..Len(SortedStops(t))} :
                        t \in {u \in q.trips : VirtualRouteId(u) = v} } :
        /\ TauAt(labels, SortedStops(pr[1])[pr[2]].stop_id, k - 1) < Inf
        /\ NormalisedDeparture(q, pr[1], pr[2]) >=
               TauAt(labels, SortedStops(pr[1])[pr[2]].stop_id, k - 1) + TRANSFER_TIME}

\* Position of a trip in the order the trips are encountered.
TripRank(t) == CHOOSE i \in 1..Len(TripList) : TripList[i] = t

EncounteredBefore(pr1, pr2) ==
    \/ TripRank(pr1[1]) < TripRank(pr2[1])
    \/ pr1[1] = pr2[1] /\ pr1[2] < pr2[2]

SearchEnded == raptor_pc \in {"collect", "reconstruct", "returned", "responded"}

\* C24: at the end of the search the label of a stop in round k is never
\* later than its label in round k - 1 (unreachable counts as latest), for
\* every stop and every k >= 1.
C24_LabelsNonIncreasingInRounds ==
    SearchEnded =>
        \A s \in AllStops : \A k \in 1..(MAX_TRANSFERS + 1) :
            TauAt(tau, s, k) <= TauAt(tau, s, k - 1)

\* The labels as they were at the top of round k: nothing of round k written.
LabelsBeforeRound(k) ==
    [tau |-> [s \in AllStops |-> [tau[s] EXCEPT ![k + 1] = Inf]],
     parent |-> [s \in AllStops |-> [parent[s] EXCEPT ![k + 1] = NoParent]],
     updated |-> {}]

\* stops_updated_by_transit of round k.
ImprovedInTransit(k) == TransitPhase(LabelsBeforeRound(k), query, k).updated

TransferPhaseEnded == raptor_pc = "transfer" /\ updated_left = {}

\* C25: when the transfer phase of round k ends, every transfer edge (s, n)
\* of duration w out of a stop s improved in the round's transit phase
\* satisfies tau[n][k] <= tau[s][k] + w, in whatever order the improved
\* stops were visited; and a step of the transfer phase changes labels of
\* round k only.
C25_TransfersClosedOverImprovedStops ==
    /\ [](TransferPhaseEnded =>
            \A s \in ImprovedInTransit(round) :
                \A i \in 1..Len(Transfers(query, s)) :
                    LET e == Transfers(query, s)[i]
                    IN  TauAt(tau, e.stop_id, round)
                            <= TauAt(tau, s, round) + e.walk_seconds)
    /\ [][TransferStep =>
            \A s \in AllStops : \A k \in 0..(MAX_TRANSFERS + 1) :
                k /= round => /\ TauAt(tau', s, k) = TauAt(tau, s, k)
                              /\ ParentAt(parent', s, k) = ParentAt(parent, s, k)]_vars

\* ---- refresh of last_seen ----

\* The end of a successful tick stamps the entries of the trips of its feed
\* with the tick's instant and leaves every other entry as it was.
TouchRefreshes ==
    /\ DOMAIN vehicle_latest_arrival' = DOMAIN vehicle_latest_arrival
    /\ \A t \in DOMAIN vehicle_latest_arrival :
          IF t \in tick_trips
          THEN vehicle_latest_arrival'[t] =
                   [vehicle_latest_arrival[t] EXCEPT !.last_seen = tick_now]
          ELSE vehicle_latest_arrival'[t] = vehicle_latest_arrival[t]

\* A call for trip t finds its entry and reports it absent.
ReportedAbsent(t) == ReadOfEntry(t) /\ reader_ret'.value = NoEntry

\* The instant the last finished tick (successful or not) went to sleep.
LastTickEnd == wake_at - POLL_INTERVAL * 10

\* Trip t has been in the feed of every tick since its entry was stamped,
\* and the ticks are less than CACHE_TTL_SECONDS apart: the tick that
\* stamped last_seen is the last one that finished (a later one would have
\* gone to sleep at least a poll interval after it), the tick in progress
\* has t in its feed, and its instant is less than the TTL after last_seen.
InEveryTickLessThanTtlApart(t) ==
    /\ poll_pc \in {"scan", "record", "touch"}
    /\ t \in tick_trips
    /\ LastTickEnd - vehicle_latest_arrival[t].last_seen < POLL_INTERVAL * 10
    /\ tick_now - vehicle_latest_arrival[t].last_seen < CACHE_TTL_SECONDS * 10

\* C26 as stated: the end of a successful tick sets last_seen of the entry
\* of every trip of its feed to the tick's instant, new arrival or not, and
\* leaves the entries of the trips absent from the feed alone; and the
\* entry of a trip that is in every tick, the ticks being less than 60 s
\* apart, is never reported absent.
C26_NeverAbsentWhileInEveryTick ==
    /\ [][PollTouch => TouchRefreshes]_vars
    /\ [][\A t \in ObsTrips :
            ReportedAbsent(t) => ~InEveryTickLessThanTtlApart(t)]_vars

\* C26 amended: the refresh is as stated, and an entry is never reported
\* absent by a call made at most 60 s after the instant its last_seen
\* carries, that is, the instant of the last finished successful tick that
\* had the trip in its feed.
C26_NeverAbsentWithinTtlOfLastRefresh ==
    /\ [][PollTouch => TouchRefreshes]_vars
    /\ [][\A t \in ObsTrips :
            ReportedAbsent(t) =>
                clock - vehicle_latest_arrival[t].last_seen > CACHE_TTL_SECONDS * 10]_vars

\* A tick without a new arrival has refreshed the entry of T1, and a call
\* made after it has found the entry.
C26_Witness ==
    /\ poll_pc = "sleep"
    /\ "T1" \in DOMAIN vehicle_latest_arrival
    /\ vehicle_latest_arrival["T1"].last_seen = tick_now
    /\ vehicle_latest_arrival["T1"].timestamp < tick_now
    /\ reader_ret.trip_id = "T1"
    /\ reader_ret.value = PublicEntry(vehicle_latest_arrival["T1"])
    /\ reader_ret.age > 0
    /\ reader_ret.age < POLL_INTERVAL * 10

\* ---- delay of a recorded arrival ----

\* c of the claim: today's midnight + floor(H/24) days + (H mod 24):M:S.
AnchorInstant ==
    LET t == parse_args.time_str
    IN  DateOf(parse_args.now) * OneDay + (t[1] \div 24) * OneDay
            + ((t[1] % 24) * 3600 + t[2] * 60 + t[3]) * 10

\* C27: for a scheduled time H:M:S the scheduled instant is the one of
\* {c - 1 day, c, c + 1 day} closest to now, the delay is now minus that
\* instant in whole seconds, and for H < 24 the delay is at most 43 200 s in
\* absolute value.
C27_DelayFromClosestCandidate ==
    (parse_pc = "logged" /\ parse_args.time_str /= EmptyStr) =>
        LET c == AnchorInstant
            now == parse_args.now
            three == {c - OneDay, c, c + OneDay}
        IN  /\ Len(scheduled_dt) = 1 /\ Len(delay_sec) = 1
            /\ scheduled_dt[1] \in three
            /\ \A x \in three : AbsDiff(scheduled_dt[1], now) <= AbsDiff(x, now)
            /\ delay_sec[1] = IntSeconds(now - scheduled_dt[1])
            /\ parse_args.time_str[1] < 24 =>
                   (delay_sec[1] <= 43200 /\ delay_sec[1] >= -43200)

\* Ten minutes after midnight an arrival scheduled at 23:50:00 is measured
\* against yesterday's instant: 1200 s late.
C27_Witness ==
    /\ parse_pc = "logged"
    /\ parse_args.time_str = <<23, 50, 0>>
    /\ parse_args.now % OneDay = 6000
    /\ scheduled_dt = << AnchorInstant - OneDay >>
    /\ delay_sec = << 1200 >>

\* ---- time consistency ----

\* The normalised departure and arrival of a returned transit leg.
LegDeparture(leg) ==
    NormaliseTime(TimeToSeconds(leg.departure_time),
                  TimeToSeconds(SortedStops(leg.trip_id)[1].departure_time),
                  TimeToSeconds(query.departure))

LegArrival(leg) ==
    NormaliseTime(TimeToSeconds(leg.arrival_time),
                  TimeToSeconds(SortedStops(leg.trip_id)[1].departure_time),
                  TimeToSeconds(query.departure))

\* The traveller's clock never runs backwards along the transit legs.
RECURSIVE ForwardInTime(_, _)
ForwardInTime(transit_legs, at) ==
    IF transit_legs = <<>> THEN TRUE
    ELSE /\ LegDeparture(Head(transit_legs)) >= at
         /\ LegArrival(Head(transit_legs)) >= LegDeparture(Head(transit_legs))
         /\ ForwardInTime(Tail(transit_legs), LegArrival(Head(transit_legs)))

\* C28: every finite label is at or after the query's departure; a transit
\* record alights no earlier than it boards, and boards no earlier than the
\* label of its boarding stop; and along every returned itinerary the
\* transit legs follow one another forward in time from the departure on.
C28_TimeConsistent ==
    /\ \A s \in AllStops : \A k \in 0..(MAX_TRANSFERS + 1) :
          /\ TauAt(tau, s, k) < Inf => TauAt(tau, s, k) >= TimeToSeconds(query.departure)
          /\ ParentAt(parent, s, k).type = "transit" =>
                /\ ParentAt(parent, s, k).arrival_time >= ParentAt(parent, s, k).boarding_time
                /\ ParentAt(parent, s, k).boarding_time
                       >= TauAt(tau, ParentAt(parent, s, k).boarding_stop, k - 1)
    /\ \A i \in 1..Len(routes) :
          ForwardInTime(TransitLegs(routes[i].legs), TimeToSeconds(query.departure))

\* ---- the fastest itinerary ----

\* C29: when some reconstructed itinerary passed the route-repeat and
\* duration filters, the list run returns holds an itinerary whose
\* total_time is the least total_time of all that passed.
C29_FastestItineraryReturned ==
    (raptor_pc = "returned" /\ temp_results /= <<>>) =>
        \E i \in 1..Len(routes) :
            \A j \in 1..Len(temp_results) :
                routes[i].total_time <= temp_results[j].total_time

\* ---- termination ----

\* The walk over the parent records from slot (s, k): the type of the record
\* it stops at, "runaway" when it is still going after MaxBacktrack steps.
RECURSIVE ChainEnd(_, _, _)
ChainEnd(s, k, fuel) ==
    IF k < 0 \/ fuel = 0 THEN "runaway"
    ELSE LET leg_info == ParentAt(parent, s, k)
         IN  CASE leg_info.type = "transfer" -> ChainEnd(leg_info.from_stop_id, k, fuel - 1)
               [] leg_info.type = "transit" -> ChainEnd(leg_info.boarding_stop, k - 1, fuel - 1)
               [] OTHER -> leg_info.type

\* C30: the main loop never goes beyond round MAX_TRANSFERS + 1 and leaves
\* at the top of a round without marked stops; from every slot with a
\* finite label the walk over the parent records ends at a walk-from-origin
\* record within MaxBacktrack steps (transfer records form no cycle, also
\* between co-located stops); and an itinerary has at most
\* MAX_TRANSFERS + 1 transit legs.
C30_SearchAndReconstructionTerminate ==
    /\ [](round <= MAX_TRANSFERS + 1)
    /\ [][(RoundTransit /\ MarkedStops(tau, round) = {}) => raptor_pc' = "collect"]_vars
    /\ [](\A s \in AllStops : \A k \in 0..(MAX_TRANSFERS + 1) :
             TauAt(tau, s, k) < Inf => ChainEnd(s, k, MaxBacktrack) = "walk")
    /\ [](\A i \in 1..Len(temp_results) :
             /\ Len(TransitLegs(temp_results[i].legs)) <= MAX_TRANSFERS + 1
             /\ \A j \in 1..Len(temp_results[i].legs) :
                   temp_results[i].legs[j] /= Runaway)

\* The chain timetable: the co-located stops C and F are both reached by a
\* trip in round 2 and C has been relabelled by a zero-second transfer from
\* F; the last round has labelled E, the loop has ended there, and an
\* itinerary of MAX_TRANSFERS + 1 transit legs has been reconstructed.
C30_Witness ==
    /\ raptor_pc = "returned"
    /\ query.trips = ChainTrips
    /\ ParentAt(parent, "F", 2).type = "transit"
    /\ ParentAt(parent, "C", 2).type = "transfer"
    /\ ParentAt(parent, "C", 2).from_stop_id = "F"
    /\ ParentAt(parent, "C", 2).walk_time = 0
    /\ TauAt(tau, "E", MAX_TRANSFERS + 1) < Inf
    /\ \E i \in 1..Len(temp_results) :
          Len(TransitLegs(temp_results[i].legs)) = MAX_TRANSFERS + 1

====
